---- MODULE Spec2Model ----
(***************************************************************************)
(* Model of the devicemapper DeviceSet (daemon/graphdriver/devmapper,      *)
(* deviceset.go): the device-id allocator, the on-disk metadata store,     *)
(* the single-slot transaction log with startup replay, the device         *)
(* registry, and the create/delete/mount/unmount life cycle.               *)
(*                                                                         *)
(* The whole state of the program and of its environment (metadata         *)
(* directory, thin-pool, device-mapper devices, mounts) is a record s;     *)
(* every Go function is an operator from s (and the outcome of the         *)
(* external calls it makes) to the state it leaves and the error it        *)
(* returns.  The actions apply the public operations to the variables.     *)
(***************************************************************************)
EXTENDS Integers, Sequences, FiniteSets, TLC

VARIABLES
    running,        \* a DeviceSet has been constructed and the process lives
    Devices,        \* MetaData.Devices: hash -> DevInfo (domain = cached hashes)
    deviceIdMap,    \* DeviceSet.deviceIdMap, as the set of ids whose bit is set
    NextDeviceId,   \* DeviceSet.NextDeviceId
    TransactionId,  \* DeviceSet.TransactionId (the in-memory copy)
    Transaction,    \* DeviceSet.Transaction (the in-memory pending slot)
    files,          \* <root>/metadata: file name -> content
    hasImage,       \* <root>/devicemapper/{data,metadata} exist; the size of data
    poolExists,     \* the thin-pool device-mapper device is active
    thinIds,        \* ids of the thin devices inside the pool
    poolTxId,       \* the thin-pool's own transaction id
    dmDevices,      \* names of the active thin device-mapper devices
    mounts,         \* kernel mount table: set of <<device name, path>>
    trace,          \* external calls and returns of the last operation
    last,           \* the last public operation: name, arguments, error, pre-state
    mon,            \* per hash: monitor of a Mount...Unmount run
    wr,             \* an in-flight writeMetaFile (step-level specification)
    del,            \* an in-flight deleteDevice (step-level specification)
    threads,        \* per thread: its operation, its position and the locks it holds
    doBlkDiscard,   \* DeviceSet.doBlkDiscard
    thinPoolDevice, \* DeviceSet.thinPoolDevice # ""
    ops,            \* number of operations performed so far
    freed,          \* ids marked free by DeleteDevice since the last id was handed out
    rmwait          \* removeDeviceAndWait in flight: position, loop counter, calls made

vars == <<running, Devices, deviceIdMap, NextDeviceId, TransactionId, Transaction,
          files, hasImage, poolExists, thinIds, poolTxId, dmDevices, mounts,
          trace, last, mon, wr, del, threads, doBlkDiscard, thinPoolDevice, ops, freed, rmwait>>

(***************************************************************************)
(* Bounds of the model.                                                    *)
(***************************************************************************)
IdBits == 2          \* width of a device id (24 in the source)
MaxTxn == 3          \* transactions are opened while the pool id is below this
MaxMount == 2        \* MountDevice is called while mountCount is below this
NChunks == 2         \* a metadata file is written in this many pieces
MaxOps == 5          \* operations in one behaviour
NThreads == 2        \* threads calling the public operations
MaxReuseTxn == 6     \* transactions are opened while the pool id is below this, where ids are reused
MaxAttempts == 3     \* iterations of a retry loop (1000 in the source)

\* 0xffffff in the source: the largest id of IdBits bits
MaxDeviceId == 2^IdBits - 1
Ids == 0 .. MaxDeviceId

deviceSetMetaFile == "deviceset-metadata"
transactionMetaFile == "transaction-metadata"
TmpFile == ".tmp"

\* DefaultBaseFsSize and DefaultDataLoopbackSize, in GiB
DefaultBaseFsSize == 10
DefaultDataLoopbackSize == 100

Hashes == {"", "A", "base"}
Paths == {"/mnt/x", "/mnt/y"}

NoErr == "nil"

(***************************************************************************)
(* JSON encodings.  A JSON object is a record of its fields; decoding      *)
(* into a Go struct sets the fields that are present and leaves the        *)
(* others as they were.                                                    *)
(***************************************************************************)
NewDevInfo(hash) ==
    [Hash |-> hash, DeviceId |-> 0, Size |-> 0, TransactionId |-> 0,
     Initialized |-> FALSE, mountCount |-> 0, mountPath |-> ""]

\* A faulty encoder, for comparison: it leaves the size out
MarshalDevInfoNoSize(info) ==
    [device_id |-> info.DeviceId, transaction_id |-> info.TransactionId,
     initialized |-> info.Initialized]

MarshalDevInfo(info) ==
    [device_id |-> info.DeviceId, size |-> info.Size,
     transaction_id |-> info.TransactionId, initialized |-> info.Initialized]

UnmarshalDevInfo(json, info) ==
    [info EXCEPT
        !.DeviceId = IF "device_id" \in DOMAIN json THEN json.device_id ELSE @,
        !.Size = IF "size" \in DOMAIN json THEN json.size ELSE @,
        !.TransactionId = IF "transaction_id" \in DOMAIN json THEN json.transaction_id ELSE @,
        !.Initialized = IF "initialized" \in DOMAIN json THEN json.initialized ELSE @]

MarshalTransaction(t) ==
    [open_transaction_id |-> t.OpenTransactionId, device_hash |-> t.DeviceIdHash,
     device_id |-> t.DeviceId]

UnmarshalTransaction(json, t) ==
    [t EXCEPT
        !.OpenTransactionId = IF "open_transaction_id" \in DOMAIN json
                              THEN json.open_transaction_id ELSE @,
        !.DeviceIdHash = IF "device_hash" \in DOMAIN json THEN json.device_hash ELSE @,
        !.DeviceId = IF "device_id" \in DOMAIN json THEN json.device_id ELSE @]

MarshalDeviceSet(s) == [next_device_id |-> s.NextDeviceId]

UnmarshalDeviceSet(json, s) ==
    [s EXCEPT !.NextDeviceId = IF "next_device_id" \in DOMAIN json
                               THEN json.next_device_id ELSE @]

\* A file holds the first n of the NChunks pieces of the encoding of data.
Content(data, n) == [data |-> data, n |-> n]
Complete(c) == c.n = NChunks

(***************************************************************************)
(* Results of the operators: the state left, the error and a value.        *)
(***************************************************************************)
\* Bind(v, F) is F(v), with v evaluated once
Bind(v, F(_)) == CHOOSE y \in {F(x) : x \in {v}} : TRUE

Ret(s, err, val) == [s |-> s, err |-> err, val |-> val]
Ok(s) == Ret(s, NoErr, 0)
Fail(s, err) == Ret(s, err, 0)

Ev(s, e) == [s EXCEPT !.trace = Append(@, e)]

Put(f, k, v) == [x \in DOMAIN f \cup {k} |-> IF x = k THEN v ELSE f[x]]
Drop(f, k) == [x \in DOMAIN f \ {k} |-> f[x]]

metadataFile(hash) == IF hash = "" THEN "base" ELSE hash

Name(hash) == IF hash = "" THEN "base" ELSE hash

(***************************************************************************)
(* writeMetaFile, step by step.  w is the call in flight:                  *)
(* [pc, data, path, err]; the temp file is the sibling TmpFile.  Each step *)
(* takes fail = TRUE when the system call it makes returns an error.       *)
(***************************************************************************)
NoWrite == [pc |-> "idle", data |-> [x |-> 0], path |-> "", err |-> NoErr]

wmBegin(jsonData, filePath) ==
    [pc |-> "TempFile", data |-> jsonData, path |-> filePath, err |-> NoErr]

wmReturn(w, err) == [w EXCEPT !.pc = "returned", !.err = err]

\* ioutil.TempFile(devices.metadataDir(), ".tmp")
wmTempFile(f, w, fail) ==
    IF fail THEN [files |-> f, w |-> wmReturn(w, "Error creating metadata file")]
    ELSE [files |-> Put(f, TmpFile, Content(w.data, 0)), w |-> [w EXCEPT !.pc = "Write"]]

\* A faulty write, for comparison: the pieces go to the target as well
wmWriteInPlace(f, w, fail) ==
    IF fail THEN [files |-> f, w |-> wmReturn(w, "Error writing metadata")]
    ELSE LET n == f[TmpFile].n + 1
         IN [files |-> Put(Put(f, TmpFile, Content(w.data, n)), w.path, Content(w.data, n)),
             w |-> [w EXCEPT !.pc = IF n = NChunks THEN "Sync" ELSE "Write"]]

\* tmpFile.Write(jsonData): the pieces reach the temp file one after another
wmWrite(f, w, fail) ==
    IF fail THEN [files |-> f, w |-> wmReturn(w, "Error writing metadata")]
    ELSE LET n == f[TmpFile].n + 1
         IN [files |-> Put(f, TmpFile, Content(w.data, n)),
             w |-> [w EXCEPT !.pc = IF n = NChunks THEN "Sync" ELSE "Write"]]

\* tmpFile.Sync()
wmSync(f, w, fail) ==
    IF fail THEN [files |-> f, w |-> wmReturn(w, "Error syncing metadata file")]
    ELSE [files |-> f, w |-> [w EXCEPT !.pc = "Close"]]

\* tmpFile.Close()
wmClose(f, w, fail) ==
    IF fail THEN [files |-> f, w |-> wmReturn(w, "Error closing metadata file")]
    ELSE [files |-> f, w |-> [w EXCEPT !.pc = "Rename"]]

\* os.Rename(tmpFile.Name(), filePath)
wmRename(f, w, fail) ==
    IF fail THEN [files |-> f, w |-> wmReturn(w, "Error committing metadata file")]
    ELSE [files |-> Drop(Put(f, w.path, f[TmpFile]), TmpFile), w |-> wmReturn(w, NoErr)]

wmStep(f, w, fail) ==
    CASE w.pc = "TempFile" -> wmTempFile(f, w, fail)
      [] w.pc = "Write" -> wmWrite(f, w, fail)
      [] w.pc = "Sync" -> wmSync(f, w, fail)
      [] w.pc = "Close" -> wmClose(f, w, fail)
      [] w.pc = "Rename" -> wmRename(f, w, fail)
      [] OTHER -> [files |-> f, w |-> w]

\* Runs the call in flight to its return; the step at pc = failAt fails.
RECURSIVE wmRun(_, _, _)
wmRun(f, w, failAt) ==
    IF w.pc = "returned" THEN [files |-> f, w |-> w]
    ELSE Bind(wmStep(f, w, w.pc = failAt), LAMBDA r : wmRun(r.files, r.w, failAt))

WriteSteps == {"TempFile", "Write", "Sync", "Close", "Rename"}

\* The whole call.  A temp file left behind by a failed call keeps its
\* (random) name; the model keeps the last one under TmpFile.  A successful
\* call leaves the earlier leftovers alone.
writeMetaFile(s, jsonData, filePath, failAt) ==
    Bind(wmRun(s.files, wmBegin(jsonData, filePath), failAt), LAMBDA r :
    LET kept == IF r.w.err = NoErr /\ TmpFile \in DOMAIN s.files
                THEN Put(r.files, TmpFile, s.files[TmpFile]) ELSE r.files
    IN Ret(Ev([s EXCEPT !.files = kept],
              [k |-> "write", path |-> filePath, err |-> r.w.err]), r.w.err, 0))

(***************************************************************************)
(* The outcome of the external calls of one operation: o.fail is the set   *)
(* of call sites whose call returns an error, o.wfail the step at which a  *)
(* failing metadata write fails.                                           *)
(***************************************************************************)
Fails(o, site) == site \in o.fail
WFail(o, site) == IF site \in o.fail THEN o.wfail ELSE "none"

(***************************************************************************)
(* The kernel collaborators (pkg/devicemapper, syscall): what the calls    *)
(* of deviceset.go do to the thin-pool, the device-mapper devices and the  *)
(* mount table.  Each appends the call and its error to the trace.         *)
(***************************************************************************)
\* The pending-transaction record a restart would read, when the kernel is called
NoPending == [open_transaction_id |-> 0, device_hash |-> "", device_id |-> 0]
PendingOnDisk(s) ==
    IF transactionMetaFile \in DOMAIN s.files /\ Complete(s.files[transactionMetaFile])
    THEN s.files[transactionMetaFile].data ELSE NoPending

dmCreateDevice(s, deviceId, fail) ==
    LET err == IF fail \/ ~s.poolExists THEN "KernelError"
               ELSE IF deviceId \in s.thinIds THEN "DeviceIdExists" ELSE NoErr
        s1 == IF err = NoErr THEN [s EXCEPT !.thinIds = @ \cup {deviceId}] ELSE s
    IN Ret(Ev(s1, [k |-> "CreateDevice", id |-> deviceId, err |-> err,
                   pending |-> PendingOnDisk(s)]), err, 0)

dmCreateSnapDevice(s, deviceId, baseName, baseDeviceId, fail) ==
    LET err == IF fail \/ ~s.poolExists THEN "KernelError"
               ELSE IF deviceId \in s.thinIds THEN "DeviceIdExists"
               ELSE IF baseDeviceId \notin s.thinIds THEN "KernelError" ELSE NoErr
        s1 == IF err = NoErr THEN [s EXCEPT !.thinIds = @ \cup {deviceId}] ELSE s
    IN Ret(Ev(s1, [k |-> "CreateSnapDevice", id |-> deviceId, base |-> baseDeviceId,
                   err |-> err, pending |-> PendingOnDisk(s)]), err, 0)

\* A thin device that is active under some name cannot be deleted from the pool.
dmDeleteDevice(s, deviceId, fail) ==
    LET busy == \E n \in DOMAIN s.dmDevices : s.dmDevices[n] = deviceId
        err == IF fail \/ ~s.poolExists \/ deviceId \notin s.thinIds \/ busy
               THEN "KernelError" ELSE NoErr
        s1 == IF err = NoErr THEN [s EXCEPT !.thinIds = @ \ {deviceId}] ELSE s
    IN Ret(Ev(s1, [k |-> "DeleteDevice", id |-> deviceId, err |-> err]), err, 0)

dmSetTransactionId(s, oldId, newId, fail) ==
    LET err == IF fail \/ ~s.poolExists \/ s.poolTxId # oldId THEN "KernelError" ELSE NoErr
        s1 == IF err = NoErr THEN [s EXCEPT !.poolTxId = newId] ELSE s
    IN Ret(Ev(s1, [k |-> "SetTransactionId", old |-> oldId, new |-> newId, err |-> err]),
           err, 0)

dmActivateDevice(s, name, deviceId, fail) ==
    LET err == IF fail \/ ~s.poolExists \/ deviceId \notin s.thinIds
               THEN "KernelError" ELSE NoErr
        s1 == IF err = NoErr THEN [s EXCEPT !.dmDevices = Put(@, name, deviceId)] ELSE s
    IN Ret(Ev(s1, [k |-> "ActivateDevice", name |-> name, id |-> deviceId, err |-> err]),
           err, 0)

\* GetInfo: Exists and OpenCount of the device of that name
dmExists(s, name) == name \in DOMAIN s.dmDevices
dmOpenCount(s, name) == Cardinality({m \in s.mounts : m[1] = name})

\* RemoveDevice: a device that is still open is busy
dmRemoveDevice(s, name, fail) ==
    LET err == IF ~dmExists(s, name) THEN "KernelError"
               ELSE IF dmOpenCount(s, name) > 0 THEN "ErrBusy"
               ELSE IF fail THEN "KernelError" ELSE NoErr
        s1 == IF err = NoErr THEN [s EXCEPT !.dmDevices = Drop(@, name)] ELSE s
    IN Ret(Ev(s1, [k |-> "RemoveDevice", name |-> name, err |-> err]), err, 0)

\* syscall.Mount of the device on path
sysMount(s, name, path, fail) ==
    LET err == IF fail \/ ~dmExists(s, name) THEN "MountError" ELSE NoErr
        s1 == IF err = NoErr THEN [s EXCEPT !.mounts = @ \cup {<<name, path>>}] ELSE s
    IN Ret(Ev(s1, [k |-> "Mount", name |-> name, path |-> path, err |-> err]), err, 0)

\* syscall.Unmount(path, MNT_DETACH): detaches what is mounted on path
sysUnmount(s, path, fail) ==
    LET err == IF fail \/ ~(\E m \in s.mounts : m[2] = path) THEN "UnmountError" ELSE NoErr
        s1 == IF err = NoErr THEN [s EXCEPT !.mounts = {m \in @ : m[2] # path}] ELSE s
    IN Ret(Ev(s1, [k |-> "Unmount", path |-> path, err |-> err]), err, 0)

(***************************************************************************)
(* Device-id allocator.                                                    *)
(***************************************************************************)
markDeviceIdUsed(s, deviceId) == [s EXCEPT !.deviceIdMap = @ \cup {deviceId}]

markDeviceIdFree(s, deviceId) == [s EXCEPT !.deviceIdMap = @ \ {deviceId}]

isDeviceIdFree(s, deviceId) == deviceId \notin s.deviceIdMap

incNextDeviceId(s) == [s EXCEPT !.NextDeviceId = (@ + 1) % (MaxDeviceId + 1)]

\* The test of one id in the loop of getNextFreeDeviceId
Examine(s) ==
    Ev(s, [k |-> "isDeviceIdFree", id |-> s.NextDeviceId, used |-> s.deviceIdMap,
           err |-> NoErr])

\* The loop with the bound i < MaxDeviceId
RECURSIVE scanFreeDeviceIdShort(_, _)
scanFreeDeviceIdShort(s, i) ==
    IF i >= MaxDeviceId THEN Fail(s, "NoFreeId")
    ELSE IF isDeviceIdFree(s, s.NextDeviceId)
         THEN Ret(markDeviceIdUsed(Examine(s), s.NextDeviceId), NoErr, s.NextDeviceId)
         ELSE scanFreeDeviceIdShort(incNextDeviceId(Examine(s)), i + 1)

RECURSIVE scanFreeDeviceId(_, _)
scanFreeDeviceId(s, i) ==
    IF i > MaxDeviceId THEN Fail(s, "NoFreeId")
    ELSE IF isDeviceIdFree(s, s.NextDeviceId)
         THEN Ret(markDeviceIdUsed(Examine(s), s.NextDeviceId), NoErr, s.NextDeviceId)
         ELSE scanFreeDeviceId(incNextDeviceId(Examine(s)), i + 1)

getNextFreeDeviceId(s) == scanFreeDeviceId(incNextDeviceId(s), 0)

(***************************************************************************)
(* Metadata store and device registry.                                     *)
(***************************************************************************)
\* The record decoded from the file of hash, as a set: empty for nil.
loadMetadata(s, hash) ==
    LET file == metadataFile(hash)
    IN IF file \notin DOMAIN s.files THEN {}
       ELSE IF ~Complete(s.files[file]) THEN {}
       ELSE {UnmarshalDevInfo(s.files[file].data, NewDevInfo(hash))}

saveMetadata(s, info, failAt) ==
    writeMetaFile(s, MarshalDevInfo(info), metadataFile(info.Hash), failAt)

\* os.RemoveAll of the file of hash
removeMetadata(s, hash, fail) ==
    LET err == IF fail THEN "Error removing metadata file" ELSE NoErr
        s1 == IF fail THEN s ELSE [s EXCEPT !.files = Drop(@, metadataFile(hash))]
    IN Ret(Ev(s1, [k |-> "remove", path |-> metadataFile(hash), err |-> err]), err, 0)

lookupDevice(s, hash) ==
    IF hash \in DOMAIN s.Devices THEN Ret(s, NoErr, hash)
    ELSE Bind(loadMetadata(s, hash), LAMBDA info :
         IF info = {} THEN Fail(s, "UnknownDevice")
         ELSE Ret([s EXCEPT !.Devices = Put(@, hash, CHOOSE i \in info : TRUE)],
                  NoErr, hash))

unregisterDevice(s, id, hash, fail) ==
    removeMetadata([s EXCEPT !.Devices = Drop(@, hash)], hash, fail)

registerDevice(s, id, hash, size, transactionId, failAt) ==
    LET info == [NewDevInfo(hash) EXCEPT !.DeviceId = id, !.Size = size,
                                         !.TransactionId = transactionId]
    IN Bind(saveMetadata([s EXCEPT !.Devices = Put(@, hash, info)], info, failAt), LAMBDA w :
       IF w.err # NoErr
       THEN Fail([w.s EXCEPT !.Devices = Drop(@, hash)], w.err)
       ELSE Ret(w.s, NoErr, hash))

(***************************************************************************)
(* Transaction log.                                                        *)
(***************************************************************************)
\* A faulty allocation, for comparison: it skips an id
allocateTransactionIdTwice(s) ==
    [s EXCEPT !.Transaction.OpenTransactionId = s.TransactionId + 2]

allocateTransactionId(s) ==
    [s EXCEPT !.Transaction.OpenTransactionId = s.TransactionId + 1]

updatePoolTransactionId(s, fail) ==
    Bind(dmSetTransactionId(s, s.TransactionId, s.Transaction.OpenTransactionId, fail),
         LAMBDA r :
    IF r.err # NoErr THEN Fail(r.s, "Error setting devmapper transaction ID")
    ELSE Ok([r.s EXCEPT !.TransactionId = r.s.Transaction.OpenTransactionId]))

saveTransactionMetaData(s, failAt) ==
    writeMetaFile(s, MarshalTransaction(s.Transaction), transactionMetaFile, failAt)

removeTransactionMetaData(s, fail) ==
    LET err == IF fail THEN "Error removing transaction file" ELSE NoErr
        s1 == IF fail THEN s ELSE [s EXCEPT !.files = Drop(@, transactionMetaFile)]
    IN Ret(Ev(s1, [k |-> "remove", path |-> transactionMetaFile, err |-> err]), err, 0)

openTransaction(s, hash, DeviceId, failAt) ==
    LET s1 == allocateTransactionId(s)
        s2 == [s1 EXCEPT !.Transaction.DeviceIdHash = hash, !.Transaction.DeviceId = DeviceId]
    IN saveTransactionMetaData(s2, failAt)

refreshTransaction(s, DeviceId, failAt) ==
    saveTransactionMetaData([s EXCEPT !.Transaction.DeviceId = DeviceId], failAt)

closeTransaction(s, fail) == updatePoolTransactionId(s, fail)

\* A file that exists but cannot be read is not modelled: ReadFile
\* fails only with "not exist".  A decode error is ignored by the code.
loadTransactionMetaData(s) ==
    IF transactionMetaFile \notin DOMAIN s.files
    THEN Ok([s EXCEPT !.Transaction.OpenTransactionId = s.TransactionId])
    ELSE IF ~Complete(s.files[transactionMetaFile]) THEN Ok(s)
    ELSE Ok([s EXCEPT !.Transaction =
                UnmarshalTransaction(s.files[transactionMetaFile].data, @)])

\* A faulty rollback, for comparison: it only deletes the thin device
rollbackTransactionKernelOnly(s, o) ==
    Ok(dmDeleteDevice(s, s.Transaction.DeviceId, Fails(o, "rollback.delete")).s)

rollbackTransaction(s, o) ==
    Bind(dmDeleteDevice(s, s.Transaction.DeviceId, Fails(o, "rollback.delete")), LAMBDA d :
    Bind(removeMetadata(d.s, s.Transaction.DeviceIdHash, Fails(o, "rollback.remove")),
         LAMBDA m :
    Ok(removeTransactionMetaData(
           IF m.err # NoErr THEN m.s ELSE markDeviceIdFree(m.s, s.Transaction.DeviceId),
           Fails(o, "rollback.removetx")).s)))

\* A faulty replay, for comparison: it rolls back whatever the ids are
processPendingTransactionAlways(s, o) ==
    Bind(rollbackTransaction(loadTransactionMetaData(s).s, o), LAMBDA r :
    Ok([r.s EXCEPT !.Transaction.OpenTransactionId = r.s.TransactionId]))

processPendingTransaction(s, o) ==
    Bind(loadTransactionMetaData(s), LAMBDA l :
    IF l.err # NoErr THEN l
    ELSE IF l.s.TransactionId = l.s.Transaction.OpenTransactionId THEN Ok(l.s)
    ELSE IF l.s.Transaction.OpenTransactionId < l.s.TransactionId THEN Ok(l.s)
    ELSE Bind(rollbackTransaction(l.s, o), LAMBDA r :
         IF r.err # NoErr THEN Fail(r.s, "Rolling back open transaction failed")
         ELSE Ok([r.s EXCEPT !.Transaction.OpenTransactionId = r.s.TransactionId])))

loadDeviceSetMetaData(s) ==
    IF deviceSetMetaFile \notin DOMAIN s.files THEN Ok(s)
    ELSE IF ~Complete(s.files[deviceSetMetaFile]) THEN Fail(s, "json: unexpected end of input")
    ELSE Ok(UnmarshalDeviceSet(s.files[deviceSetMetaFile].data, s))

saveDeviceSetMetaData(s, failAt) ==
    writeMetaFile(s, MarshalDeviceSet(s), deviceSetMetaFile, failAt)

(***************************************************************************)
(* Creation of a thin device or of a snapshot, inside a transaction.       *)
(***************************************************************************)
\* The tail shared by both creates: register, commit, undo on failure.
\* Every exit appends the return of the create to the trace: its error, the
\* transaction ids before and after, whether the hash is registered and has
\* a metadata file, the ids it left marked, and the calls it made.
CreateRet(s0, r0, what, hash) ==
    Bind(r0, LAMBDA r :
    Ret(Ev(r.s, [k |-> "return", op |-> what, hash |-> hash, err |-> r.err,
                 tx0 |-> s0.TransactionId, tx1 |-> r.s.TransactionId,
                 ptx0 |-> s0.poolTxId, ptx1 |-> r.s.poolTxId,
                 rtx |-> IF r.err = NoErr THEN r.s.Devices[hash].TransactionId ELSE 0,
                 reg |-> hash \in DOMAIN r.s.Devices,
                 file |-> metadataFile(hash) \in DOMAIN r.s.files,
                 ids |-> r.s.deviceIdMap \ s0.deviceIdMap,
                 calls |-> SubSeq(r.s.trace, Len(s0.trace) + 1, Len(r.s.trace))]),
        r.err, r.val))

\* The transaction closed before the record is registered
closeAndRegister(s, deviceId, hash, size, o) ==
    Bind(closeTransaction(s, Fails(o, "commit")), LAMBDA c :
    IF c.err # NoErr
    THEN Fail(markDeviceIdFree(dmDeleteDevice(c.s, deviceId, Fails(o, "cleanup.delete")).s,
                               deviceId), c.err)
    ELSE Bind(registerDevice(c.s, deviceId, hash, size, c.s.Transaction.OpenTransactionId,
                             WFail(o, "save")), LAMBDA g :
         IF g.err # NoErr
         THEN Fail(markDeviceIdFree(
                       dmDeleteDevice(g.s, deviceId, Fails(o, "cleanup.delete")).s,
                       deviceId), g.err)
         ELSE Ret(g.s, NoErr, hash)))

registerAndClose(s, deviceId, hash, size, o) ==
    Bind(registerDevice(s, deviceId, hash, size, s.Transaction.OpenTransactionId,
                        WFail(o, "save")), LAMBDA g :
    IF g.err # NoErr
    THEN Fail(markDeviceIdFree(dmDeleteDevice(g.s, deviceId, Fails(o, "cleanup.delete")).s,
                               deviceId), g.err)
    ELSE Bind(closeTransaction(g.s, Fails(o, "commit")), LAMBDA c :
         IF c.err # NoErr
         THEN Bind(unregisterDevice(c.s, deviceId, hash, Fails(o, "cleanup.remove")),
                   LAMBDA u :
              Fail(markDeviceIdFree(
                       dmDeleteDevice(u.s, deviceId, Fails(o, "cleanup.delete")).s,
                       deviceId), c.err))
         ELSE Ret(c.s, NoErr, hash)))

RECURSIVE createDeviceLoop(_, _, _, _)
createDeviceLoop(s, deviceId, hash, o) ==
    Bind(dmCreateDevice(s, deviceId, Fails(o, "create")), LAMBDA c :
    IF c.err = "DeviceIdExists"
    THEN Bind(getNextFreeDeviceId(c.s), LAMBDA n :
         IF n.err # NoErr THEN Fail(n.s, n.err)
         ELSE createDeviceLoop(refreshTransaction(n.s, n.val, WFail(o, "refresh")).s,
                               n.val, hash, o))
    ELSE IF c.err # NoErr THEN Fail(markDeviceIdFree(c.s, deviceId), c.err)
    ELSE registerAndClose(c.s, deviceId, hash, c.s.baseFsSize, o))

createRegisterDevice(s, hash, o) ==
    Bind(getNextFreeDeviceId(s), LAMBDA n :
    IF n.err # NoErr THEN CreateRet(s, Fail(n.s, n.err), "createRegisterDevice", hash)
    ELSE Bind(openTransaction(n.s, hash, n.val, WFail(o, "open")), LAMBDA t :
         IF t.err # NoErr
         THEN CreateRet(s, Fail(markDeviceIdFree(t.s, n.val),
                                "Error saving transaction meta data"),
                        "createRegisterDevice", hash)
         ELSE CreateRet(s, createDeviceLoop(t.s, n.val, hash, o),
                        "createRegisterDevice", hash)))

\* A faulty snapshot, for comparison: it is registered with the default
\* size, not with the size of its base
RECURSIVE createSnapLoopDefaultSize(_, _, _, _, _)
createSnapLoopDefaultSize(s, deviceId, hash, baseInfo, o) ==
    Bind(dmCreateSnapDevice(s, deviceId, Name(baseInfo.Hash), baseInfo.DeviceId,
                            Fails(o, "create")), LAMBDA c :
    IF c.err = "DeviceIdExists"
    THEN Bind(getNextFreeDeviceId(c.s), LAMBDA n :
         IF n.err # NoErr THEN Fail(n.s, n.err)
         ELSE createSnapLoopDefaultSize(
                  refreshTransaction(n.s, n.val, WFail(o, "refresh")).s,
                  n.val, hash, baseInfo, o))
    ELSE IF c.err # NoErr THEN Fail(markDeviceIdFree(c.s, deviceId), c.err)
    ELSE registerAndClose(c.s, deviceId, hash, DefaultBaseFsSize, o))

RECURSIVE createSnapLoop(_, _, _, _, _)
createSnapLoop(s, deviceId, hash, baseInfo, o) ==
    Bind(dmCreateSnapDevice(s, deviceId, Name(baseInfo.Hash), baseInfo.DeviceId,
                            Fails(o, "create")), LAMBDA c :
    IF c.err = "DeviceIdExists"
    THEN Bind(getNextFreeDeviceId(c.s), LAMBDA n :
         IF n.err # NoErr THEN Fail(n.s, n.err)
         ELSE createSnapLoop(refreshTransaction(n.s, n.val, WFail(o, "refresh")).s,
                             n.val, hash, baseInfo, o))
    ELSE IF c.err # NoErr THEN Fail(markDeviceIdFree(c.s, deviceId), c.err)
    ELSE registerAndClose(c.s, deviceId, hash, baseInfo.Size, o))

createRegisterSnapDevice(s, hash, baseInfo, o) ==
    Bind(getNextFreeDeviceId(s), LAMBDA n :
    IF n.err # NoErr THEN CreateRet(s, Fail(n.s, n.err), "createRegisterSnapDevice", hash)
    ELSE Bind(openTransaction(n.s, hash, n.val, WFail(o, "open")), LAMBDA t :
         IF t.err # NoErr
         THEN CreateRet(s, Fail(markDeviceIdFree(t.s, n.val),
                                "Error saving transaction meta data"),
                        "createRegisterSnapDevice", hash)
         ELSE CreateRet(s, createSnapLoop(t.s, n.val, hash, baseInfo, o),
                        "createRegisterSnapDevice", hash)))

(***************************************************************************)
(* Activation, deactivation and the wait utilities.  An operation runs     *)
(* alone here, so what RemoveDevice and GetInfo answer does not change     *)
(* between two polls: a device that is busy stays busy for all attempts.   *)
(***************************************************************************)
activateDeviceIfNeeded(s, info, fail) ==
    IF dmExists(s, Name(info.Hash)) THEN Ok(s)
    ELSE dmActivateDevice(s, Name(info.Hash), info.DeviceId, fail)

\* "linger": what was lazily unmounted still holds the device open
StillOpen(s, devname, o) == dmOpenCount(s, devname) > 0 \/ Fails(o, "linger")

waitRemove(s, devname, o) ==
    IF dmExists(s, devname) THEN Fail(s, "Timeout") ELSE Ok(s)

removeDeviceAndWait(s, devname, o) ==
    Bind(IF StillOpen(s, devname, o)
         THEN Fail(Ev(s, [k |-> "RemoveDevice", name |-> devname, err |-> "ErrBusy"]),
                   "ErrBusy")
         ELSE dmRemoveDevice(s, devname, Fails(o, "remove")), LAMBDA r :
    IF r.err # NoErr THEN r ELSE waitRemove(r.s, devname, o))

waitClose(s, info, o) ==
    IF StillOpen(s, Name(info.Hash), o)
    THEN Fail(Ev(s, [k |-> "waitClose", hash |-> info.Hash, err |-> "Timeout"]), "Timeout")
    ELSE Ok(Ev(s, [k |-> "waitClose", hash |-> info.Hash, err |-> NoErr]))

deactivateDevice(s, info, o) ==
    Bind(waitClose(Ev(s, [k |-> "deactivateDevice", hash |-> info.Hash]), info, o),
         LAMBDA w :
    IF dmExists(w.s, Name(info.Hash))
    THEN removeDeviceAndWait(w.s, Name(info.Hash), o)
    ELSE Ok(w.s))

\* deactivatePool: the pool is busy while a thin device of it is active
deactivatePool(s, o) ==
    IF ~s.poolExists THEN Ok(s)
    ELSE IF DOMAIN s.dmDevices # {} \/ Fails(o, "removepool")
    THEN Fail(Ev(s, [k |-> "RemoveDevice", name |-> "pool", err |-> "ErrBusy"]), "ErrBusy")
    ELSE Ok(Ev([s EXCEPT !.poolExists = FALSE],
               [k |-> "RemoveDevice", name |-> "pool", err |-> NoErr]))

createFilesystem(s, info, fail) ==
    LET err == IF fail THEN "mkfs failed" ELSE NoErr
    IN Ret(Ev(s, [k |-> "mkfs", name |-> Name(info.Hash), err |-> err]), err, 0)

(***************************************************************************)
(* Deletion.                                                               *)
(***************************************************************************)
DeleteRet(s0, r0, info) ==
    Bind(r0, LAMBDA r :
    Ret(Ev(r.s, [k |-> "return", op |-> "deleteDevice", hash |-> info.Hash, err |-> r.err,
                 tx0 |-> s0.TransactionId, tx1 |-> r.s.TransactionId,
                 ptx0 |-> s0.poolTxId, ptx1 |-> r.s.poolTxId, rtx |-> 0]), r.err, r.val))

\* The discard of the blocks of the device, when doBlkDiscard is set: a
\* failure to activate or to discard is only logged.
discardBlocks(s, info, o) ==
    IF ~s.doBlkDiscard THEN s
    ELSE Bind(activateDeviceIfNeeded(s, info, Fails(o, "del.activate")), LAMBDA x :
         IF x.err = NoErr
         THEN Ev(x.s, [k |-> "BlockDeviceDiscard", name |-> Name(info.Hash)])
         ELSE x.s)

deleteDeviceBody(s, info, o) ==
    Bind(discardBlocks(s, info, o), LAMBDA a :
    Bind(IF dmExists(a, Name(info.Hash))
         THEN removeDeviceAndWait(a, Name(info.Hash), o) ELSE Ok(a), LAMBDA rm :
    IF rm.err # NoErr THEN rm
    ELSE Bind(openTransaction(rm.s, info.Hash, info.DeviceId, WFail(o, "del.open")),
              LAMBDA t :
    IF t.err # NoErr THEN Fail(t.s, "Error saving transaction meta data")
    ELSE Bind(dmDeleteDevice(t.s, info.DeviceId, Fails(o, "del.delete")), LAMBDA d :
    IF d.err # NoErr THEN d
    ELSE Bind(unregisterDevice(d.s, info.DeviceId, info.Hash, Fails(o, "del.unregister")),
              LAMBDA u :
    IF u.err # NoErr THEN u
    ELSE Bind(closeTransaction(u.s, Fails(o, "del.commit")), LAMBDA c :
    IF c.err # NoErr THEN c
    ELSE Ok(markDeviceIdFree(c.s, info.DeviceId))))))))

deleteDevice(s, info, o) == DeleteRet(s, deleteDeviceBody(s, info, o), info)

\* deleteDevice one statement at a time: pc is the statement to run next,
\* "returned" once the function has returned err.
DeleteSteps == <<"discard", "remove", "open", "delete", "unregister", "commit", "free">>

delThen(r, pc) ==
    Bind(r, LAMBDA x :
    [s |-> x.s, pc |-> IF x.err # NoErr THEN "returned" ELSE pc, err |-> x.err])

\* A faulty deleteDevice, for comparison: the id is freed with the
\* unregistration, before the commit
deleteStepFreeEarly(s, info, pc, o) ==
    CASE pc = "discard" -> delThen(Ok(discardBlocks(s, info, o)), "remove")
      [] pc = "remove" ->
            delThen(IF dmExists(s, Name(info.Hash))
                    THEN removeDeviceAndWait(s, Name(info.Hash), o) ELSE Ok(s), "open")
      [] pc = "open" ->
            Bind(openTransaction(s, info.Hash, info.DeviceId, WFail(o, "del.open")),
                 LAMBDA x :
            delThen(IF x.err # NoErr THEN Fail(x.s, "Error saving transaction meta data")
                    ELSE x, "delete"))
      [] pc = "delete" ->
            delThen(dmDeleteDevice(s, info.DeviceId, Fails(o, "del.delete")), "unregister")
      [] pc = "unregister" ->
            delThen(unregisterDevice(markDeviceIdFree(s, info.DeviceId), info.DeviceId,
                                     info.Hash, Fails(o, "del.unregister")), "commit")
      [] pc = "commit" -> delThen(closeTransaction(s, Fails(o, "del.commit")), "free")
      [] pc = "free" -> delThen(Ok(s), "returned")
      [] OTHER -> [s |-> s, pc |-> pc, err |-> NoErr]

deleteStep(s, info, pc, o) ==
    CASE pc = "discard" -> delThen(Ok(discardBlocks(s, info, o)), "remove")
      [] pc = "remove" ->
            delThen(IF dmExists(s, Name(info.Hash))
                    THEN removeDeviceAndWait(s, Name(info.Hash), o) ELSE Ok(s), "open")
      [] pc = "open" ->
            Bind(openTransaction(s, info.Hash, info.DeviceId, WFail(o, "del.open")),
                 LAMBDA x :
            delThen(IF x.err # NoErr THEN Fail(x.s, "Error saving transaction meta data")
                    ELSE x, "delete"))
      [] pc = "delete" ->
            delThen(dmDeleteDevice(s, info.DeviceId, Fails(o, "del.delete")), "unregister")
      [] pc = "unregister" ->
            delThen(unregisterDevice(s, info.DeviceId, info.Hash, Fails(o, "del.unregister")),
                    "commit")
      [] pc = "commit" -> delThen(closeTransaction(s, Fails(o, "del.commit")), "free")
      [] pc = "free" -> delThen(Ok(markDeviceIdFree(s, info.DeviceId)), "returned")
      [] OTHER -> [s |-> s, pc |-> pc, err |-> NoErr]

DeleteDevice(s, hash, o) ==
    Bind(lookupDevice(s, hash), LAMBDA l :
    IF l.err # NoErr THEN l ELSE deleteDevice(l.s, l.s.Devices[hash], o))

(***************************************************************************)
(* Snapshot creation.                                                      *)
(***************************************************************************)
\* A faulty AddDevice, for comparison: the new hash is not looked up first
AddDeviceUnchecked(s, hash, baseHash, o) ==
    Bind(lookupDevice(s, baseHash), LAMBDA b :
    IF b.err # NoErr THEN b
    ELSE createRegisterSnapDevice(b.s, hash, b.s.Devices[baseHash], o))

AddDevice(s, hash, baseHash, o) ==
    Bind(lookupDevice(s, baseHash), LAMBDA b :
    IF b.err # NoErr THEN b
    ELSE Bind(lookupDevice(b.s, hash), LAMBDA l :
         IF l.err = NoErr THEN Fail(l.s, "DeviceExists")
         ELSE createRegisterSnapDevice(l.s, hash, l.s.Devices[baseHash], o)))

(***************************************************************************)
(* Mount and unmount with reference counts.                                *)
(***************************************************************************)
SetInfo(s, hash, info) == [s EXCEPT !.Devices = Put(@, hash, info)]

\* syscall.Mount with "discard", tried again without it after EINVAL
mountWithRetry(s, info, path, o) ==
    Bind(IF Fails(o, "mount.einval")
         THEN Fail(Ev(s, [k |-> "Mount", name |-> Name(info.Hash), path |-> path,
                          err |-> "EINVAL"]), "EINVAL")
         ELSE sysMount(s, Name(info.Hash), path, Fails(o, "mount")), LAMBDA m1 :
    IF m1.err = "EINVAL" THEN sysMount(m1.s, Name(info.Hash), path, Fails(o, "mount"))
    ELSE m1)

\* A faulty mount, for comparison: a mounted device is counted at any path
MountDeviceAnywhere(s, hash, path, o) ==
    Bind(lookupDevice(s, hash), LAMBDA l :
    IF l.err # NoErr THEN l
    ELSE LET info == l.s.Devices[hash]
         IN IF info.mountCount > 0
            THEN Ok(SetInfo(l.s, hash, [info EXCEPT !.mountCount = @ + 1]))
            ELSE Bind(activateDeviceIfNeeded(l.s, info, Fails(o, "activate")), LAMBDA a :
                 IF a.err # NoErr THEN Fail(a.s, "Error activating devmapper device")
                 ELSE IF Fails(o, "probe") THEN Fail(a.s, "ProbeFsType failed")
                 ELSE Bind(mountWithRetry(a.s, info, path, o), LAMBDA m :
                      IF m.err # NoErr THEN Fail(m.s, "Error mounting")
                      ELSE Ok(SetInfo(m.s, hash,
                              [info EXCEPT !.mountCount = 1, !.mountPath = path])))))

MountDevice(s, hash, path, o) ==
    Bind(lookupDevice(s, hash), LAMBDA l :
    IF l.err # NoErr THEN l
    ELSE LET info == l.s.Devices[hash]
         IN IF info.mountCount > 0
            THEN IF path # info.mountPath THEN Fail(l.s, "AlreadyMountedElsewhere")
                 ELSE Ok(SetInfo(l.s, hash, [info EXCEPT !.mountCount = @ + 1]))
            ELSE Bind(activateDeviceIfNeeded(l.s, info, Fails(o, "activate")), LAMBDA a :
                 IF a.err # NoErr THEN Fail(a.s, "Error activating devmapper device")
                 ELSE IF Fails(o, "probe") THEN Fail(a.s, "ProbeFsType failed")
                 ELSE Bind(mountWithRetry(a.s, info, path, o), LAMBDA m :
                      IF m.err # NoErr THEN Fail(m.s, "Error mounting")
                      ELSE Ok(SetInfo(m.s, hash,
                              [info EXCEPT !.mountCount = 1, !.mountPath = path])))))

\* A faulty unmount, for comparison: every call unmounts and deactivates
UnmountDeviceEager(s, hash, o) ==
    Bind(lookupDevice(s, hash), LAMBDA l :
    IF l.err # NoErr THEN l
    ELSE LET info == l.s.Devices[hash]
             dec == [info EXCEPT !.mountCount = @ - 1]
         IN IF info.mountCount = 0 THEN Fail(l.s, "NotMounted")
            ELSE Bind(sysUnmount(SetInfo(l.s, hash, dec), dec.mountPath,
                                 Fails(o, "unmount")), LAMBDA u :
                 IF u.err # NoErr THEN u
                 ELSE Bind(deactivateDevice(u.s, dec, o), LAMBDA d :
                      IF d.err # NoErr THEN d
                      ELSE Ok(SetInfo(d.s, hash, [dec EXCEPT !.mountPath = ""])))))

\* A faulty unmount, for comparison: the count is not checked before it is
\* decremented
UnmountDeviceUnchecked(s, hash, o) ==
    Bind(lookupDevice(s, hash), LAMBDA l :
    IF l.err # NoErr THEN l
    ELSE LET info == l.s.Devices[hash]
             dec == [info EXCEPT !.mountCount = @ - 1]
         IN IF dec.mountCount > 0 THEN Ok(SetInfo(l.s, hash, dec))
            ELSE Bind(sysUnmount(SetInfo(l.s, hash, dec), dec.mountPath,
                                 Fails(o, "unmount")), LAMBDA u :
                 IF u.err # NoErr THEN u
                 ELSE Bind(deactivateDevice(u.s, dec, o), LAMBDA d :
                      IF d.err # NoErr THEN d
                      ELSE Ok(SetInfo(d.s, hash, [dec EXCEPT !.mountPath = ""])))))

UnmountDevice(s, hash, o) ==
    Bind(lookupDevice(s, hash), LAMBDA l :
    IF l.err # NoErr THEN l
    ELSE LET info == l.s.Devices[hash]
             dec == [info EXCEPT !.mountCount = @ - 1]
         IN IF info.mountCount = 0 THEN Fail(l.s, "NotMounted")
            ELSE IF dec.mountCount > 0 THEN Ok(SetInfo(l.s, hash, dec))
            ELSE Bind(sysUnmount(SetInfo(l.s, hash, dec), dec.mountPath,
                                 Fails(o, "unmount")), LAMBDA u :
                 IF u.err # NoErr THEN u
                 ELSE Bind(deactivateDevice(u.s, dec, o), LAMBDA d :
                      IF d.err # NoErr THEN d
                      ELSE Ok(SetInfo(d.s, hash, [dec EXCEPT !.mountPath = ""])))))

(***************************************************************************)
(* Queries.                                                                *)
(***************************************************************************)
HasDevice(s, hash) == lookupDevice(s, hash)

HasActivatedDevice(s, hash) ==
    Bind(lookupDevice(s, hash), LAMBDA l :
    IF l.err # NoErr THEN Ret(l.s, NoErr, FALSE)
    ELSE Ret(l.s, NoErr, dmExists(l.s, Name(hash))))

List(s) == DOMAIN s.Devices

GetDeviceStatus(s, hash, o) ==
    Bind(lookupDevice(s, hash), LAMBDA l :
    IF l.err # NoErr THEN l
    ELSE Bind(activateDeviceIfNeeded(l.s, l.s.Devices[hash], Fails(o, "activate")),
              LAMBDA a :
         IF a.err # NoErr THEN Fail(a.s, "Error activating devmapper device")
         ELSE IF Fails(o, "status") THEN Fail(a.s, "GetStatus failed")
         ELSE Ok(a.s)))

(***************************************************************************)
(* Shutdown.                                                               *)
(***************************************************************************)
\* One record of the snapshot taken by Shutdown; errors are only logged.
shutdownDevice(s, hash, o) ==
    IF hash \notin DOMAIN s.Devices THEN s
    ELSE IF s.Devices[hash].mountCount > 0
         THEN deactivateDevice(
                  sysUnmount(s, s.Devices[hash].mountPath, Fails(o, "unmount")).s,
                  s.Devices[hash], o).s
         ELSE s

\* The records are visited in the order of Go's map iteration; the order
\* the model takes is one of them.
RECURSIVE shutdownDevices(_, _, _)
shutdownDevices(s, devs, o) ==
    IF devs = {} THEN s
    ELSE LET h == CHOOSE x \in devs : TRUE
         IN shutdownDevices(shutdownDevice(s, h, o), devs \ {h}, o)

\* A faulty Shutdown, for comparison: the pool goes before the base
ShutdownPoolFirst(s, o) ==
    Bind(shutdownDevices(s, DOMAIN s.Devices, o), LAMBDA s1 :
    Bind(lookupDevice(IF ~s1.thinPoolDevice THEN deactivatePool(s1, o).s ELSE s1, ""),
         LAMBDA b :
    Bind(IF b.err = NoErr THEN deactivateDevice(b.s, b.s.Devices[""], o).s ELSE b.s,
         LAMBDA s2 :
    Ok(saveDeviceSetMetaData(s2, WFail(o, "dset")).s))))

Shutdown(s, o) ==
    Bind(lookupDevice(shutdownDevices(s, DOMAIN s.Devices, o), ""), LAMBDA b :
    Bind(IF b.err = NoErr THEN deactivateDevice(b.s, b.s.Devices[""], o).s ELSE b.s,
         LAMBDA s2 :
    Ok(saveDeviceSetMetaData(IF ~s2.thinPoolDevice THEN deactivatePool(s2, o).s ELSE s2,
                             WFail(o, "dset")).s)))

(***************************************************************************)
(* Startup: the directory scan, the replay of the pending transaction and  *)
(* the base image.                                                         *)
(***************************************************************************)
\* The files the walk does not skip
IsMigrated(name) == name \in {"json.migrated"}
ScannedFiles(s) == {f \in DOMAIN s.files : ~IsMigrated(f) /\ f # deviceSetMetaFile}

hashOfFile(name) == IF name = "base" THEN "" ELSE name

\* deviceFileWalkFunction on one file: the ids it marks, or an error
deviceFileWalkFunction(s, name) ==
    Bind(loadMetadata(s, hashOfFile(name)), LAMBDA dinfo :
    IF dinfo = {} THEN Fail(s, "Error loading device metadata file")
    ELSE LET d == CHOOSE i \in dinfo : TRUE
         IN IF d.DeviceId > MaxDeviceId THEN Ok(s)
            ELSE Ok(markDeviceIdUsed(s, d.DeviceId)))

\* filepath.Walk stops at the first error; marking ids commutes, so the
\* files are taken in any order.
RECURSIVE walkFiles(_, _)
walkFiles(s, names) ==
    IF names = {} THEN Ok(s)
    ELSE LET n == CHOOSE x \in names : TRUE
         IN Bind(deviceFileWalkFunction(s, n), LAMBDA r :
            IF r.err # NoErr THEN r ELSE walkFiles(r.s, names \ {n}))

constructDeviceIdMap(s) == walkFiles(s, ScannedFiles(s))

\* poolStatus: transaction id and used data blocks of the pool
poolStatus(s) ==
    IF ~s.poolExists THEN Fail(s, "GetStatus failed")
    ELSE Ret(s, NoErr, [transactionId |-> s.poolTxId,
                        dataUsed |-> Cardinality(s.thinIds)])

initMetaData(s, o) ==
    Bind(poolStatus(s), LAMBDA p :
    IF p.err # NoErr THEN p
    ELSE Bind(constructDeviceIdMap([s EXCEPT !.TransactionId = p.val.transactionId]),
              LAMBDA c :
         IF c.err # NoErr THEN c ELSE processPendingTransaction(c.s, o)))

\* A faulty set-up, for comparison: it marks the base initialized before
\* the file system is made
finishBaseImageMarkFirst(s, info, o) ==
    LET done == [info EXCEPT !.Initialized = TRUE]
    IN Bind(saveMetadata(SetInfo(s, "", done), done, WFail(o, "init")), LAMBDA w :
       IF w.err # NoErr THEN Fail(SetInfo(w.s, "", info), w.err)
       ELSE Bind(activateDeviceIfNeeded(w.s, done, Fails(o, "activate")), LAMBDA a :
            IF a.err # NoErr THEN a
            ELSE createFilesystem(a.s, done, Fails(o, "mkfs"))))

\* The last steps of setupBaseImage on the new base device
finishBaseImage(s, info, o) ==
    Bind(activateDeviceIfNeeded(s, info, Fails(o, "activate")), LAMBDA a :
    IF a.err # NoErr THEN a
    ELSE Bind(createFilesystem(a.s, info, Fails(o, "mkfs")), LAMBDA f :
         IF f.err # NoErr THEN f
         ELSE LET done == [info EXCEPT !.Initialized = TRUE]
              IN Bind(saveMetadata(SetInfo(f.s, "", done), done, WFail(o, "init")),
                      LAMBDA w :
                 IF w.err # NoErr THEN Fail(SetInfo(w.s, "", info), w.err)
                 ELSE Ok(w.s))))

\* A faulty set-up, for comparison: it takes any external pool
setupBaseImageAnyPool(s, o) ==
    Bind(lookupDevice(s, ""), LAMBDA l0 :
    Bind(Ret(Ev(l0.s, [k |-> "oldInfo", found |-> l0.err = NoErr,
                       Initialized |-> l0.err = NoErr /\ l0.s.Devices[""].Initialized,
                       DeviceId |-> IF l0.err = NoErr THEN l0.s.Devices[""].DeviceId ELSE 0,
                       used |-> l0.s.deviceIdMap, tx |-> l0.s.TransactionId,
                       ptx |-> l0.s.poolTxId, thin |-> l0.s.thinIds]),
             l0.err, l0.val), LAMBDA l :
    LET had == l.err = NoErr
    IN IF had /\ l.s.Devices[""].Initialized THEN Ok(l.s)
       ELSE Bind(IF had THEN DeleteDevice(l.s, "", o) ELSE Ok(l.s), LAMBDA d :
            Bind(poolStatus(d.s), LAMBDA p :
            IF d.err # NoErr THEN d
            ELSE Bind(createRegisterDevice(d.s, "", o), LAMBDA c :
                 IF c.err # NoErr THEN c
                 ELSE finishBaseImage(c.s, c.s.Devices[""], o))))))

\* The trace records what the lookup of the base finds: oldInfo, and the ids
\* marked used at that moment.
setupBaseImage(s, o) ==
    Bind(lookupDevice(s, ""), LAMBDA l0 :
    Bind(Ret(Ev(l0.s, [k |-> "oldInfo", found |-> l0.err = NoErr,
                       Initialized |-> l0.err = NoErr /\ l0.s.Devices[""].Initialized,
                       DeviceId |-> IF l0.err = NoErr THEN l0.s.Devices[""].DeviceId ELSE 0,
                       used |-> l0.s.deviceIdMap, tx |-> l0.s.TransactionId,
                       ptx |-> l0.s.poolTxId, thin |-> l0.s.thinIds]),
             l0.err, l0.val), LAMBDA l :
    LET had == l.err = NoErr
    IN IF had /\ l.s.Devices[""].Initialized THEN Ok(l.s)
       ELSE Bind(IF had THEN DeleteDevice(l.s, "", o) ELSE Ok(l.s), LAMBDA d :
            Bind(poolStatus(d.s), LAMBDA p :
            IF d.err # NoErr THEN d
            ELSE IF d.s.thinPoolDevice /\ ~had /\ p.err # NoErr THEN p
            ELSE IF d.s.thinPoolDevice /\ ~had /\ p.val.dataUsed # 0
                 THEN Fail(d.s, "Unable to take ownership of thin-pool: used data blocks")
            ELSE IF d.s.thinPoolDevice /\ ~had /\ p.val.transactionId # 0
                 THEN Fail(d.s, "Unable to take ownership of thin-pool: transaction id")
            ELSE Bind(createRegisterDevice(d.s, "", o), LAMBDA c :
                 IF c.err # NoErr THEN c
                 ELSE finishBaseImage(c.s, c.s.Devices[""], o))))))

\* What NewDeviceSet builds before initDevmapper runs
NewDeviceSet(s) ==
    [s EXCEPT !.Devices = <<>>, !.deviceIdMap = {}, !.NextDeviceId = 0,
              !.TransactionId = 0, !.baseFsSize = DefaultBaseFsSize,
              !.Transaction = [OpenTransactionId |-> 0, DeviceIdHash |-> "", DeviceId |-> 0]]

\* The pool is created when it does not exist and none is configured;
\* val is createdLoopback.
ensurePool(s, doInit, o) ==
    IF s.poolExists \/ s.thinPoolDevice THEN Ret(s, NoErr, FALSE)
    ELSE IF ~doInit /\ ~s.hasImage.data THEN Fail(s, "Loopback data file not found")
    ELSE IF ~doInit /\ ~s.hasImage.metadata
         THEN Fail([s EXCEPT !.hasImage.data = TRUE,
                             !.hasImage.size = DefaultDataLoopbackSize],
                   "Loopback metadata file not found")
    ELSE LET created == ~s.hasImage.data \/ ~s.hasImage.metadata
             s1 == [s EXCEPT !.hasImage =
                       [data |-> TRUE, metadata |-> TRUE,
                        size |-> IF @.data THEN @.size ELSE DefaultDataLoopbackSize]]
         IN IF Fails(o, "createpool") THEN Fail(s1, "CreatePool failed")
            ELSE Ret(Ev([s1 EXCEPT !.poolExists = TRUE], [k |-> "CreatePool"]),
                     NoErr, created)

initDevmapper(s, doInit, o) ==
    Bind(ensurePool(s, doInit, o), LAMBDA e :
    IF e.err # NoErr THEN e
    ELSE Bind(IF ~e.val THEN initMetaData(e.s, o) ELSE Ok(e.s), LAMBDA m :
         IF m.err # NoErr THEN m
         ELSE Bind(loadDeviceSetMetaData(m.s), LAMBDA l :
              IF l.err # NoErr THEN l
              ELSE IF doInit THEN setupBaseImage(l.s, o) ELSE Ok(l.s))))

(***************************************************************************)
(* ResizePool.  The loopback and pool calls fail as the oracle says.       *)
(***************************************************************************)
ResizeSteps ==
    <<"Truncate", "LoopbackSetCapacity", "SuspendDevice", "ReloadPool", "ResumeDevice">>
ResizeErrors ==
    <<"Unable to grow loopback file", "Unable to update loopback capacity",
      "Unable to suspend pool", "Unable to reload pool", "Unable to resume pool">>

\* The calls after the loopback devices are found, from the i-th on
RECURSIVE resizeFrom(_, _, _, _)
resizeFrom(s, size, i, o) ==
    IF i > Len(ResizeSteps) THEN Ok(s)
    ELSE IF Fails(o, ResizeSteps[i])
         THEN Fail(Ev(s, [k |-> ResizeSteps[i], err |-> ResizeErrors[i]]), ResizeErrors[i])
    ELSE resizeFrom(Ev(IF ResizeSteps[i] = "Truncate"
                       THEN [s EXCEPT !.hasImage.size = size] ELSE s,
                       [k |-> ResizeSteps[i], err |-> NoErr]), size, i + 1, o)

\* A faulty resize, for comparison: it never refuses
resizeUnchecked(s, size, o) ==
    IF Fails(o, "FindLoopDeviceFor.data")
    THEN Fail(s, "Unable to find loopback mount for: data")
    ELSE IF ~s.hasImage.metadata THEN Fail(s, "open metadata: no such file")
    ELSE IF Fails(o, "FindLoopDeviceFor.metadata")
         THEN Fail(s, "Unable to find loopback mount for: metadata")
    ELSE resizeFrom(s, size, 1, o)

\* The part of ResizePool after fi.Size() is known
resizeChecked(s, size, o) ==
    IF s.hasImage.size > size THEN Fail(s, "Can't shrink file")
    ELSE IF Fails(o, "FindLoopDeviceFor.data")
         THEN Fail(s, "Unable to find loopback mount for: data")
    ELSE IF ~s.hasImage.metadata THEN Fail(s, "open metadata: no such file")
    ELSE IF Fails(o, "FindLoopDeviceFor.metadata")
         THEN Fail(s, "Unable to find loopback mount for: metadata")
    ELSE resizeFrom(s, size, 1, o)

ResizePool(s, size, o) ==
    IF ~s.hasImage.data \/ Fails(o, "open") THEN Fail(s, "open data: no such file")
    ELSE resizeChecked(Ev(s, [k |-> "Stat", size |-> s.hasImage.size]), size, o)

(***************************************************************************)
(* Locking.  The public operations as the sequences of lock operations,    *)
(* device-mapper calls and uses of the guarded fields that their code      *)
(* makes, run by NThreads threads.  A wait utility sleeps once (the device *)
(* is busy once); an operation that unlocks by defer may return early.     *)
(* The locks: the DeviceSet's own mutex, devicesLock and DevInfo.lock.     *)
(***************************************************************************)
\* id tells the DevInfo objects of one hash apart, where they are told apart
Global == [lock |-> "devices", hash |-> "", id |-> 0]
Registry == [lock |-> "devicesLock", hash |-> "", id |-> 0]
InfoLock(h) == [lock |-> "info", hash |-> h, id |-> 0]

Acquire(l) == <<[i |-> "Lock", lock |-> l, call |-> ""]>>
Release(l) == <<[i |-> "Unlock", lock |-> l, call |-> ""]>>
Dm(call) == <<[i |-> "dm", lock |-> Global, call |-> call]>>
Use(field) == <<[i |-> "use", lock |-> Global, call |-> field]>>
Sys(call) == <<[i |-> "sys", lock |-> Global, call |-> call]>>

\* devices.Unlock(); time.Sleep(...); devices.Lock()
SleepLocks == Release(Global) \o Acquire(Global)
lookupDeviceLocks == Acquire(Registry) \o Release(Registry)
waitCloseLocks == Dm("GetInfo") \o SleepLocks \o Dm("GetInfo")
waitRemoveLocks == Dm("GetInfo") \o SleepLocks \o Dm("GetInfo")
removeDeviceAndWaitLocks ==
    Dm("RemoveDevice") \o SleepLocks \o Dm("RemoveDevice") \o waitRemoveLocks
deactivateDeviceLocks == waitCloseLocks \o Dm("GetInfo") \o removeDeviceAndWaitLocks
activateDeviceIfNeededLocks == Dm("GetInfo") \o Dm("ActivateDevice")
deactivatePoolLocks == Dm("GetInfo") \o Dm("GetDeps") \o Dm("RemoveDevice")

createRegisterSnapDeviceLocks ==
    Use("deviceIdMap") \o Use("Transaction") \o Dm("CreateSnapDevice")
    \o lookupDeviceLocks \o Dm("SetTransactionId") \o Use("TransactionId")

\* A faulty deleteDevice, for comparison: it waits for the removal inside
\* the transaction
deleteDeviceLocksWaitInside ==
    activateDeviceIfNeededLocks \o Dm("BlockDeviceDiscard") \o Dm("GetInfo")
    \o Use("Transaction") \o removeDeviceAndWaitLocks \o Dm("DeleteDevice")
    \o lookupDeviceLocks \o Dm("SetTransactionId") \o Use("TransactionId")
    \o Use("deviceIdMap")

deleteDeviceLocks ==
    activateDeviceIfNeededLocks \o Dm("BlockDeviceDiscard") \o Dm("GetInfo")
    \o removeDeviceAndWaitLocks \o Use("Transaction") \o Dm("DeleteDevice")
    \o lookupDeviceLocks \o Dm("SetTransactionId") \o Use("TransactionId")
    \o Use("deviceIdMap")

\* info.lock.Lock(); defer info.lock.Unlock(); devices.Lock(); defer devices.Unlock()
Locked(h, body) ==
    lookupDeviceLocks \o Acquire(InfoLock(h)) \o Acquire(Global) \o body
    \o Release(Global) \o Release(InfoLock(h))

\* A faulty AddDevice, for comparison: it locks the DeviceSet first
AddDeviceLocksGlobalFirst(hash, baseHash) ==
    lookupDeviceLocks \o Acquire(Global) \o Acquire(InfoLock(baseHash))
    \o lookupDeviceLocks \o createRegisterSnapDeviceLocks
    \o Release(InfoLock(baseHash)) \o Release(Global)

AddDeviceLocks(hash, baseHash) ==
    Locked(baseHash, lookupDeviceLocks \o createRegisterSnapDeviceLocks)

\* Shutdown, for the records "" and "A", both taken as mounted
ShutdownLocks ==
    lookupDeviceLocks
    \o Acquire(InfoLock("")) \o Sys("Unmount") \o Acquire(Global) \o deactivateDeviceLocks
    \o Release(Global) \o Release(InfoLock(""))
    \o Acquire(InfoLock("A")) \o Sys("Unmount") \o Acquire(Global) \o deactivateDeviceLocks
    \o Release(Global) \o Release(InfoLock("A"))
    \o lookupDeviceLocks
    \o Acquire(InfoLock("")) \o Acquire(Global) \o deactivateDeviceLocks
    \o Release(Global) \o Release(InfoLock(""))
    \o Acquire(Global) \o (IF thinPoolDevice THEN <<>> ELSE deactivatePoolLocks)
    \o Use("NextDeviceId") \o Release(Global)

ResizePoolLocks ==
    Dm("FindLoopDeviceFor") \o Dm("FindLoopDeviceFor") \o Dm("LoopbackSetCapacity")
    \o Dm("SuspendDevice") \o Dm("ReloadPool") \o Dm("ResumeDevice")

PublicOps ==
    {"AddDevice", "DeleteDevice", "MountDevice", "UnmountDevice", "HasDevice",
     "HasActivatedDevice", "List", "GetDeviceStatus", "Status", "ResizePool", "Shutdown"}
\* The operations that unlock by defer, and those that take a hash
Deferring == PublicOps \ {"Shutdown"}
WithHash == {"AddDevice", "DeleteDevice", "MountDevice", "UnmountDevice", "HasDevice",
             "HasActivatedDevice", "GetDeviceStatus"}

Program(op, hash, baseHash) ==
    CASE op = "AddDevice" -> AddDeviceLocks(hash, baseHash)
      [] op = "DeleteDevice" -> Locked(hash, deleteDeviceLocks)
      [] op = "MountDevice" -> Locked(hash, activateDeviceIfNeededLocks)
      [] op = "UnmountDevice" -> Locked(hash, deactivateDeviceLocks)
      [] op = "HasDevice" -> Acquire(Global) \o lookupDeviceLocks \o Release(Global)
      [] op = "HasActivatedDevice" -> Locked(hash, Dm("GetInfo"))
      [] op = "List" ->
            Acquire(Global) \o Acquire(Registry) \o Release(Registry) \o Release(Global)
      [] op = "GetDeviceStatus" ->
            Locked(hash, activateDeviceIfNeededLocks \o Dm("GetStatus"))
      [] op = "Status" ->
            Acquire(Global) \o Dm("UdevSyncSupported") \o Dm("GetStatus")
            \o Release(Global)
      [] op = "ResizePool" -> ResizePoolLocks
      [] op = "Shutdown" -> ShutdownLocks
      [] OTHER -> <<>>

ProgramOf(th) == Program(th.op, th.hash, th.base)
Holds(th, l) == \E i \in DOMAIN th.held : th.held[i] = l
Without(held, l) == SelectSeq(held, LAMBDA x : x # l)

(***************************************************************************)
(* The state machine.                                                      *)
(***************************************************************************)
Cur ==
    [Devices |-> Devices, deviceIdMap |-> deviceIdMap, NextDeviceId |-> NextDeviceId,
     TransactionId |-> TransactionId, Transaction |-> Transaction, files |-> files,
     hasImage |-> hasImage, poolExists |-> poolExists, thinIds |-> thinIds,
     poolTxId |-> poolTxId, dmDevices |-> dmDevices, mounts |-> mounts,
     doBlkDiscard |-> doBlkDiscard, thinPoolDevice |-> thinPoolDevice,
     baseFsSize |-> DefaultBaseFsSize, trace |-> <<>>]

\* The program and its environment take the values of s
Set(s) ==
    /\ Devices' = s.Devices
    /\ deviceIdMap' = s.deviceIdMap
    /\ NextDeviceId' = s.NextDeviceId
    /\ TransactionId' = s.TransactionId
    /\ Transaction' = s.Transaction
    /\ files' = s.files
    /\ hasImage' = s.hasImage
    /\ poolExists' = s.poolExists
    /\ thinIds' = s.thinIds
    /\ poolTxId' = s.poolTxId
    /\ dmDevices' = s.dmDevices
    /\ mounts' = s.mounts
    /\ trace' = s.trace

Becomes(s) ==
    /\ Set(s)
    /\ ops < MaxOps
    /\ ops' = ops + 1
    /\ UNCHANGED <<doBlkDiscard, thinPoolDevice, wr, del, threads, freed, rmwait>>

\* The outcomes of the external calls of one operation: no failure, one
\* failing call, one failing metadata write (at one of its steps), or a
\* failing call together with a failing clean-up call.
NoFault == [fail |-> {}, wfail |-> "none"]
One(sites) == {[fail |-> {x}, wfail |-> "none"] : x \in sites}
OneWrite(wsites, steps) == {[fail |-> {x}, wfail |-> w] : x \in wsites, w \in steps}
Two(sites, cleanups) == {[fail |-> {x, c}, wfail |-> "none"] : x \in sites, c \in cleanups}

CreateOracles(steps) ==
    {NoFault} \cup One({"create", "commit"}) \cup OneWrite({"open", "refresh", "save"}, steps)
    \cup Two({"commit"}, {"cleanup.delete", "cleanup.remove"})
DeleteOracles(steps) ==
    {NoFault} \cup One({"linger", "remove", "del.delete", "del.unregister", "del.commit"})
    \cup OneWrite({"del.open"}, steps)
MountOracles == {NoFault} \cup One({"activate", "probe", "mount", "mount.einval"})
                \cup Two({"mount.einval"}, {"mount"})
UnmountOracles == {NoFault} \cup One({"unmount", "linger", "remove"})
StatusOracles == {NoFault} \cup One({"activate", "status"})
ShutdownOracles(steps) ==
    {NoFault} \cup One({"unmount", "linger", "remove", "removepool"}) \cup OneWrite({"dset"}, steps)
StartupOracles(steps) ==
    {NoFault}
    \cup One({"createpool", "rollback.delete", "rollback.remove", "rollback.removetx",
              "create", "commit", "activate", "mkfs", "del.delete"})
    \cup OneWrite({"open", "save", "init"}, steps)

\* No deleteDevice in flight; no thread inside an operation
NoDelete == [pc |-> "idle", hash |-> "", err |-> NoErr]
NoRemove == [pc |-> "idle", i |-> 0, err |-> NoErr, log |-> <<>>]
Threads == 1 .. NThreads
IdleThread ==
    [op |-> "idle", hash |-> "", base |-> "", pc |-> 1, held |-> <<>>, in |-> FALSE, obj |-> 0]
NoThreads == [t \in Threads |-> IdleThread]

NoMon == [phase |-> "idle", hash |-> "", path |-> "", m |-> 0, u |-> 0,
          km |-> 0, ku |-> 0, kd |-> 0]

Count(tr, P(_)) == Cardinality({i \in DOMAIN tr : P(tr[i])})
IsKMount(e) == e.k = "Mount" /\ e.err = NoErr
IsKUnmount(e) == e.k = "Unmount" /\ e.err = NoErr
IsDeactivate(e) == e.k = "deactivateDevice"

\* The pre-state an operation on hash starts from
Pre(hash) ==
    [tx |-> TransactionId, ptx |-> poolTxId,
     cached |-> hash \in DOMAIN Devices,
     count |-> IF hash \in DOMAIN Devices THEN Devices[hash].mountCount ELSE 0,
     path |-> IF hash \in DOMAIN Devices THEN Devices[hash].mountPath ELSE ""]

Last(op, hash, arg, err) ==
    [op |-> op, hash |-> hash, arg |-> arg, err |-> err, pre |-> Pre(hash)]

Init ==
    /\ running = FALSE
    /\ Devices = <<>>
    /\ deviceIdMap = {}
    /\ NextDeviceId = 0
    /\ TransactionId = 0
    /\ Transaction = [OpenTransactionId |-> 0, DeviceIdHash |-> "", DeviceId |-> 0]
    /\ files = <<>>
    /\ hasImage = [data |-> FALSE, metadata |-> FALSE, size |-> 0]
    /\ poolExists = FALSE
    /\ thinIds = {}
    /\ poolTxId = 0
    /\ dmDevices = <<>>
    /\ mounts = {}
    /\ trace = <<>>
    /\ last = Last("none", "", "", NoErr)
    /\ mon = NoMon
    /\ wr = NoWrite
    /\ del = NoDelete
    /\ threads = NoThreads
    /\ freed = {}
    /\ rmwait = NoRemove
    /\ doBlkDiscard = TRUE
    /\ thinPoolDevice = FALSE
    /\ ops = 0

\* NewDeviceSet(root, doInit, options): on an error no DeviceSet is returned
StartupWith(doInit, o) ==
    /\ ~running
    /\ \E r \in {initDevmapper(NewDeviceSet(Cur), doInit, o)} :
          /\ r.s.poolTxId <= MaxTxn
          /\ running' = (r.err = NoErr)
          /\ Becomes(IF r.err = NoErr THEN r.s ELSE [NewDeviceSet(r.s) EXCEPT !.trace = r.s.trace])
          /\ last' = Last("Startup", "", doInit, r.err)
          /\ mon' = NoMon

Startup(os) == \E doInit \in BOOLEAN, o \in os : StartupWith(doInit, o)

\* NewDeviceSet(root, true, options) with the option dm.basesize
StartupBaseSize(sizes, os) ==
    \E size \in sizes, o \in os :
        /\ ~running
        /\ \E r \in {initDevmapper([NewDeviceSet(Cur) EXCEPT !.baseFsSize = size], TRUE, o)} :
              /\ r.s.poolTxId <= MaxTxn
              /\ running' = (r.err = NoErr)
              /\ Becomes(IF r.err = NoErr THEN r.s
                         ELSE [NewDeviceSet(r.s) EXCEPT !.trace = r.s.trace])
              /\ last' = Last("Startup", "", TRUE, r.err)
              /\ mon' = NoMon

\* The process is killed: its memory is lost, the kernel state stays
Crash ==
    /\ running
    /\ running' = FALSE
    /\ Becomes(NewDeviceSet(Cur))
    /\ last' = Last("Crash", "", "", NoErr)
    /\ mon' = NoMon

\* The machine restarts: no device-mapper device and no mount survives
Reboot ==
    /\ ~running
    /\ poolExists \/ dmDevices # <<>> \/ mounts # {}
    /\ Becomes([Cur EXCEPT !.poolExists = FALSE, !.dmDevices = <<>>, !.mounts = {}])
    /\ UNCHANGED running
    /\ last' = Last("Reboot", "", "", NoErr)
    /\ mon' = NoMon

DoAddDevice(hs, os) ==
    \E hash \in hs, baseHash \in hs, o \in os :
        /\ running
        /\ TransactionId < MaxTxn
        /\ \E r \in {AddDevice(Cur, hash, baseHash, o)} :
              /\ Becomes(r.s)
              /\ last' = Last("AddDevice", hash, baseHash, r.err)
        /\ mon' = NoMon
        /\ UNCHANGED running

DoDeleteDevice(hs, os) ==
    \E hash \in hs, o \in os :
        /\ running
        /\ TransactionId < MaxTxn
        /\ \E r \in {DeleteDevice(Cur, hash, o)} :
              /\ Becomes(r.s)
              /\ last' = Last("DeleteDevice", hash, "", r.err)
        /\ mon' = NoMon
        /\ UNCHANGED running

\* DeleteDevice(hash) up to the call of deleteDevice: the lookup.  del keeps
\* the record, the outcomes of the external calls and the state at the call.
DeleteBegin(hs, os) ==
    \E hash \in hs, o \in os :
        /\ running
        /\ del.pc \in {"idle", "returned"}
        /\ TransactionId < MaxTxn
        /\ ops < MaxOps
        /\ ops' = ops + 1
        /\ \E r \in {lookupDevice(Cur, hash)} :
              /\ Set(r.s)
              /\ last' = Last("DeleteDevice", hash, "", IF r.err # NoErr THEN r.err ELSE "running")
              /\ del' = IF r.err # NoErr
                        THEN [pc |-> "returned", hash |-> hash, err |-> r.err]
                        ELSE [pc |-> "discard", hash |-> hash, err |-> NoErr,
                              info |-> r.s.Devices[hash], o |-> o, pre |-> r.s]
        /\ UNCHANGED <<running, mon, wr, threads, doBlkDiscard, thinPoolDevice, freed, rmwait>>

\* The next statement of the deleteDevice in flight
DeleteStep ==
    /\ del.pc \notin {"idle", "returned"}
    /\ \E r \in {deleteStep([Cur EXCEPT !.trace = trace], del.info, del.pc, del.o)} :
          /\ Set(r.s)
          /\ del' = [del EXCEPT !.pc = r.pc, !.err = r.err]
          /\ last' = [last EXCEPT !.err = IF r.pc = "returned" THEN r.err ELSE @]
    /\ UNCHANGED <<running, mon, wr, threads, doBlkDiscard, thinPoolDevice, ops, freed, rmwait>>

DoHasDevice(hs) ==
    \E hash \in hs :
        /\ running
        /\ \E r \in {HasDevice(Cur, hash)} :
              /\ Becomes(r.s)
              /\ last' = Last("HasDevice", hash, "", r.err)
        /\ mon' = NoMon
        /\ UNCHANGED running

\* ResizePool(size)
DoResizePool(sizes, os) ==
    \E size \in sizes, o \in os :
        /\ running
        /\ \E r \in {ResizePool(Cur, size, o)} :
              /\ Becomes(r.s)
              /\ last' = Last("ResizePool", "", size, r.err)
        /\ mon' = NoMon
        /\ UNCHANGED running

DoGetDeviceStatus(hs, os) ==
    \E hash \in hs, o \in os :
        /\ running
        /\ \E r \in {GetDeviceStatus(Cur, hash, o)} :
              /\ Becomes(r.s)
              /\ last' = Last("GetDeviceStatus", hash, "", r.err)
        /\ mon' = NoMon
        /\ UNCHANGED running

\* The run of consecutive successful mounts and unmounts of one device
MonMount(hash, path, r) ==
    IF r.err # NoErr THEN NoMon
    ELSE IF mon.phase = "mounting" /\ mon.hash = hash /\ mon.path = path
         THEN [mon EXCEPT !.m = @ + 1, !.km = @ + Count(r.s.trace, IsKMount),
                          !.ku = @ + Count(r.s.trace, IsKUnmount),
                          !.kd = @ + Count(r.s.trace, IsDeactivate)]
    ELSE IF Pre(hash).count = 0
         THEN [phase |-> "mounting", hash |-> hash, path |-> path, m |-> 1, u |-> 0,
               km |-> Count(r.s.trace, IsKMount), ku |-> Count(r.s.trace, IsKUnmount),
               kd |-> Count(r.s.trace, IsDeactivate)]
    ELSE NoMon

MonUnmount(hash, r) ==
    IF r.err # NoErr \/ mon.phase = "idle" \/ mon.hash # hash \/ mon.u = mon.m THEN NoMon
    ELSE [mon EXCEPT !.phase = "unmounting", !.u = @ + 1,
                     !.km = @ + Count(r.s.trace, IsKMount),
                     !.ku = @ + Count(r.s.trace, IsKUnmount),
                     !.kd = @ + Count(r.s.trace, IsDeactivate)]

DoMountDevice(hs, os) ==
    \E hash \in hs, path \in Paths, o \in os :
        /\ running
        /\ Pre(hash).count < MaxMount
        /\ \E r \in {MountDevice(Cur, hash, path, o)} :
              /\ Becomes(r.s)
              /\ last' = Last("MountDevice", hash, path, r.err)
              /\ mon' = MonMount(hash, path, r)
        /\ UNCHANGED running

DoUnmountDevice(hs, os) ==
    \E hash \in hs, o \in os :
        /\ running
        /\ \E r \in {UnmountDevice(Cur, hash, o)} :
              /\ Becomes(r.s)
              /\ last' = Last("UnmountDevice", hash, "", r.err)
              /\ mon' = MonUnmount(hash, r)
        /\ UNCHANGED running

DoShutdown(os) ==
    \E o \in os :
        /\ running
        /\ \E r \in {Shutdown(Cur, o)} :
              /\ Becomes(r.s)
              /\ last' = Last("Shutdown", "", "", r.err)
        /\ mon' = NoMon
        /\ UNCHANGED running

NoLeftover == {"TempFile"}

Next ==
    \/ Startup(StartupOracles(NoLeftover))
    \/ Crash
    \/ Reboot
    \/ DoAddDevice(Hashes, CreateOracles(NoLeftover))
    \/ DoDeleteDevice(Hashes, DeleteOracles(NoLeftover))
    \/ DoHasDevice(Hashes)

Spec == Init /\ [][Next]_vars

(***************************************************************************)
(* The device set once started: NewDeviceSet(root, doInit = true) on a     *)
(* fresh root, and then AddDevice("A", "").  Fresh is that root.           *)
(***************************************************************************)
Fresh ==
    [Devices |-> <<>>, deviceIdMap |-> {}, NextDeviceId |-> 0, TransactionId |-> 0,
     Transaction |-> [OpenTransactionId |-> 0, DeviceIdHash |-> "", DeviceId |-> 0],
     files |-> <<>>, hasImage |-> [data |-> FALSE, metadata |-> FALSE, size |-> 0],
     poolExists |-> FALSE, thinIds |-> {}, poolTxId |-> 0, dmDevices |-> <<>>,
     mounts |-> {}, doBlkDiscard |-> TRUE, thinPoolDevice |-> FALSE,
     baseFsSize |-> DefaultBaseFsSize, trace |-> <<>>]

Started(root) == [initDevmapper(NewDeviceSet(root), TRUE, NoFault).s EXCEPT !.trace = <<>>]

StartedWithA(root) ==
    [AddDevice(Started(root), "A", "", NoFault).s EXCEPT !.trace = <<>>]

Is(s) ==
    /\ running = TRUE
    /\ Devices = s.Devices
    /\ deviceIdMap = s.deviceIdMap
    /\ NextDeviceId = s.NextDeviceId
    /\ TransactionId = s.TransactionId
    /\ Transaction = s.Transaction
    /\ files = s.files
    /\ hasImage = s.hasImage
    /\ poolExists = s.poolExists
    /\ thinIds = s.thinIds
    /\ poolTxId = s.poolTxId
    /\ dmDevices = s.dmDevices
    /\ mounts = s.mounts
    /\ trace = <<>>
    /\ mon = NoMon
    /\ wr = NoWrite
    /\ del = NoDelete
    /\ threads = NoThreads
    /\ freed = {}
    /\ rmwait = NoRemove
    /\ doBlkDiscard = s.doBlkDiscard
    /\ thinPoolDevice = s.thinPoolDevice
    /\ ops = 0

(***************************************************************************)
(* Mounting: the started device set with the devices "" and "A".           *)
(***************************************************************************)
MountHashes == {"", "A"}

InitMount == \E s \in {StartedWithA(Fresh)} : Is(s) /\ last = Last("none", "", "", NoErr)

NextMount ==
    \/ DoMountDevice(MountHashes, MountOracles)
    \/ DoUnmountDevice(MountHashes, UnmountOracles)
    \/ DoDeleteDevice(MountHashes, DeleteOracles(NoLeftover))
    \/ DoGetDeviceStatus(MountHashes, StatusOracles)
    \/ DoShutdown(ShutdownOracles(NoLeftover))

SpecMount == InitMount /\ [][NextMount]_vars

(***************************************************************************)
(* The snapshot chain: a fresh root started with do_init and a base size,  *)
(* then snapshots of "", "A" and "B" from one another.                     *)
(***************************************************************************)
ChainHashes == {"", "A", "B"}
BaseSizes == {DefaultBaseFsSize, 2 * DefaultBaseFsSize}

NextChain ==
    \/ StartupBaseSize(BaseSizes, StartupOracles(NoLeftover))
    \/ DoAddDevice(ChainHashes, CreateOracles(NoLeftover))
    \/ DoGetDeviceStatus(ChainHashes, StatusOracles)

SpecChain == Init /\ [][NextChain]_vars

(***************************************************************************)
(* deleteDevice one statement at a time, from the started device set with  *)
(* the devices "" and "A", with and without the discard of the blocks.     *)
(* The other operations run between two deletions (they need the locks     *)
(* DeleteDevice holds).                                                    *)
(***************************************************************************)
\* A create succeeds, or its commit and the removal of its file both fail
StaleFileOracles == {NoFault} \cup Two({"commit"}, {"cleanup.remove"})

InitDelete ==
    /\ \E s \in {StartedWithA(Fresh)}, b \in BOOLEAN : Is([s EXCEPT !.doBlkDiscard = b])
    /\ last = Last("none", "", "", NoErr)

NextDelete ==
    \/ DeleteBegin(Hashes, DeleteOracles(NoLeftover))
    \/ DeleteStep
    \/ del.pc \in {"idle", "returned"} /\ DoAddDevice(Hashes, StaleFileOracles)
    \/ del.pc \in {"idle", "returned"} /\ DoGetDeviceStatus(Hashes, {NoFault})

SpecDelete == InitDelete /\ [][NextDelete]_vars

(***************************************************************************)
(* An external thin-pool (dm.thinpooldev): the pool exists before the      *)
(* first startup, empty or with a transaction id or a thin device of       *)
(* another owner.  Discards are off by default with such a pool.           *)
(***************************************************************************)
ForeignIds == {{}, {MaxDeviceId}}

InitThinPool ==
    /\ running = FALSE
    /\ Devices = <<>>
    /\ deviceIdMap = {}
    /\ NextDeviceId = 0
    /\ TransactionId = 0
    /\ Transaction = [OpenTransactionId |-> 0, DeviceIdHash |-> "", DeviceId |-> 0]
    /\ files = <<>>
    /\ hasImage = [data |-> FALSE, metadata |-> FALSE, size |-> 0]
    /\ poolExists = TRUE
    /\ thinIds \in ForeignIds
    /\ poolTxId \in {0, 1}
    /\ dmDevices = <<>>
    /\ mounts = {}
    /\ trace = <<>>
    /\ last = Last("none", "", "", NoErr)
    /\ mon = NoMon
    /\ wr = NoWrite
    /\ del = NoDelete
    /\ threads = NoThreads
    /\ freed = {}
    /\ rmwait = NoRemove
    /\ doBlkDiscard = FALSE
    /\ thinPoolDevice = TRUE
    /\ ops = 0

NextThinPool ==
    \/ Startup(StartupOracles(NoLeftover))
    \/ Crash
    \/ DoAddDevice(ChainHashes, {NoFault})

SpecThinPool == InitThinPool /\ [][NextThinPool]_vars

(***************************************************************************)
(* Retried creates: a create whose commit and whose cleanup fail leaves a  *)
(* thin device behind under an id that is marked free; a later create that *)
(* is handed that id gets DeviceIdExists from the kernel and tries again.  *)
(***************************************************************************)
RetryStartupOracles == {NoFault} \cup One({"rollback.delete"})
RetryOracles(steps) ==
    {NoFault} \cup Two({"commit"}, {"cleanup.delete"}) \cup OneWrite({"refresh"}, steps)

NextRetry ==
    \/ Startup(RetryStartupOracles)
    \/ Crash
    \/ DoAddDevice(ChainHashes, RetryOracles(NoLeftover))

SpecRetry == Init /\ [][NextRetry]_vars

(***************************************************************************)
(* Resizing the data loopback file of a pool the program set up itself.    *)
(***************************************************************************)
ResizeSizes == {DefaultDataLoopbackSize \div 2, DefaultDataLoopbackSize,
                2 * DefaultDataLoopbackSize, 3 * DefaultDataLoopbackSize}
ResizeOracles ==
    {NoFault}
    \cup One({"open", "FindLoopDeviceFor.data", "FindLoopDeviceFor.metadata", "Truncate",
              "LoopbackSetCapacity", "SuspendDevice", "ReloadPool", "ResumeDevice"})

NextResize ==
    \/ Startup({NoFault})
    \/ Crash
    \/ DoResizePool(ResizeSizes, ResizeOracles)
    \/ DoAddDevice(ChainHashes, {NoFault})

SpecResize == Init /\ [][NextResize]_vars

(***************************************************************************)
(* The threads of the started device set, each inside one public           *)
(* operation at a time.                                                    *)
(***************************************************************************)
LockHashes == {"", "A"}

LockFrame ==
    UNCHANGED <<running, Devices, deviceIdMap, NextDeviceId, TransactionId, Transaction,
                files, hasImage, poolExists, thinIds, poolTxId, dmDevices, mounts, trace,
                last, mon, wr, del, doBlkDiscard, thinPoolDevice, ops, freed, rmwait>>

\* Thread t enters one of the public operations pub
CallOf(t, pub) ==
    /\ threads[t].op = "idle"
    /\ \E op \in pub, hash \in LockHashes, baseHash \in LockHashes :
          /\ op \notin WithHash => hash = ""
          /\ op # "AddDevice" => baseHash = ""
          /\ threads' = [threads EXCEPT ![t] =
                            [IdleThread EXCEPT !.op = op, !.hash = hash, !.base = baseHash]]
    /\ LockFrame

Call(t) == CallOf(t, PublicOps)

\* What the instruction ins makes of thread th
Exec(th, ins) ==
    CASE ins.i = "Lock" -> [th EXCEPT !.held = Append(@, ins.lock), !.pc = @ + 1]
      [] ins.i = "Unlock" -> [th EXCEPT !.held = Without(@, ins.lock), !.pc = @ + 1]
      [] ins.i = "dm" -> IF th.in THEN [th EXCEPT !.in = FALSE, !.pc = @ + 1]
                         ELSE [th EXCEPT !.in = TRUE]
      [] OTHER -> [th EXCEPT !.pc = @ + 1]

\* Thread t runs its next instruction, and returns after the last one; a
\* Lock waits until no thread holds the lock
Step(t) ==
    /\ threads[t].op # "idle"
    /\ LET th == threads[t]
           ins == ProgramOf(th)[th.pc]
       IN /\ ins.i = "Lock" => \A u \in Threads : ~Holds(threads[u], ins.lock)
          /\ \E n \in {Exec(th, ins)} :
                threads' = [threads EXCEPT ![t] =
                               IF n.pc > Len(ProgramOf(th)) THEN IdleThread ELSE n]
    /\ LockFrame

\* Thread t returns on an error: the deferred unlocks run
EarlyReturn(t) ==
    /\ threads[t].op \in Deferring
    /\ ~threads[t].in
    /\ ProgramOf(threads[t])[threads[t].pc].i # "Lock"
    /\ threads' = [threads EXCEPT ![t] = IdleThread]
    /\ LockFrame

NextLocks == \E t \in Threads : Call(t) \/ Step(t) \/ EarlyReturn(t)

SpecLocks == InitMount /\ [][NextLocks]_vars



(***************************************************************************)
(* Reuse of ids: the started device set with the devices "" and "A", with  *)
(* the ids that DeleteDevice marked free since an id was last handed out.  *)
(***************************************************************************)
IsHandedOut(e) == e.k = "isDeviceIdFree" /\ e.id \notin e.used
HandedOut(tr) == {i \in DOMAIN tr : IsHandedOut(tr[i])}

\* The operation op has run and left r
Reuse(op, hash, arg, r) ==
    /\ Set(r.s)
    /\ ops < MaxOps
    /\ ops' = ops + 1
    /\ last' = Last(op, hash, arg, r.err)
    /\ freed' = (IF HandedOut(r.s.trace) # {} THEN {} ELSE freed)
                 \cup (IF op = "DeleteDevice" THEN deviceIdMap \ r.s.deviceIdMap ELSE {})
    /\ mon' = NoMon
    /\ UNCHANGED <<doBlkDiscard, thinPoolDevice, wr, del, threads, rmwait>>

ReuseAddDevice ==
    \E hash \in ChainHashes, baseHash \in ChainHashes :
        /\ running
        /\ TransactionId < MaxReuseTxn
        /\ Reuse("AddDevice", hash, baseHash, AddDevice(Cur, hash, baseHash, NoFault))
        /\ UNCHANGED running

ReuseDeleteDevice ==
    \E hash \in ChainHashes :
        /\ running
        /\ TransactionId < MaxReuseTxn
        /\ Reuse("DeleteDevice", hash, "", DeleteDevice(Cur, hash, NoFault))
        /\ UNCHANGED running

ReuseShutdown ==
    /\ running
    /\ Reuse("Shutdown", "", "", Shutdown(Cur, NoFault))
    /\ UNCHANGED running

ReuseCrash ==
    /\ running
    /\ running' = FALSE
    /\ Reuse("Crash", "", "", Ok(NewDeviceSet(Cur)))

ReuseStartup ==
    /\ ~running
    /\ \E r \in {initDevmapper(NewDeviceSet(Cur), TRUE, NoFault)} :
          /\ r.s.poolTxId <= MaxReuseTxn
          /\ running' = (r.err = NoErr)
          /\ Reuse("Startup", "", TRUE,
                   IF r.err = NoErr THEN r
                   ELSE [r EXCEPT !.s = [NewDeviceSet(r.s) EXCEPT !.trace = r.s.trace]])

NextReuse ==
    ReuseAddDevice \/ ReuseDeleteDevice \/ ReuseShutdown \/ ReuseCrash \/ ReuseStartup

SpecReuse == InitMount /\ [][NextReuse]_vars


(***************************************************************************)
(* removeDeviceAndWait one kernel call and one sleep at a time.  The       *)
(* kernel answers each call as it likes: other processes hold the device   *)
(* open or let go of it, and a removal completes when udev has handled it. *)
(***************************************************************************)
RemoveAnswers == {NoErr, "ErrBusy", "KernelError"}
InfoAnswers == {"error", "gone", "exists"}

\* The loops with the test i <= 1000
LoopAgainInclusive(i) == i <= MaxAttempts
\* for ...; i < 1000; ...
LoopAgain(i) == i < MaxAttempts

rmLog(r, e) == [r EXCEPT !.log = Append(@, e)]
rmReturn(r, err) == [r EXCEPT !.pc = "returned", !.err = err]

\* devicemapper.RemoveDevice(devname) has answered
rmRemove(r, answer) ==
    Bind(rmLog(r, [k |-> "RemoveDevice", err |-> answer]), LAMBDA n :
    IF answer = NoErr THEN [n EXCEPT !.pc = "GetInfo", !.i = 0, !.err = NoErr]
    ELSE IF answer # "ErrBusy" THEN rmReturn(n, answer)
    ELSE [n EXCEPT !.pc = "Sleep", !.err = answer])

\* Unlock, Sleep, Lock and the loop's i++ and test, in removeDeviceAndWait
rmSleep(r) ==
    Bind(rmLog(r, [k |-> "Sleep", err |-> NoErr]), LAMBDA n :
    IF LoopAgain(r.i + 1) THEN [n EXCEPT !.pc = "RemoveDevice", !.i = r.i + 1]
    ELSE rmReturn([n EXCEPT !.i = r.i + 1], r.err))

\* devicemapper.GetInfo(devname) has answered, in waitRemove
rmGetInfo(r, answer) ==
    Bind(rmLog(r, [k |-> "GetInfo", err |-> answer]), LAMBDA n :
    IF answer \in {"error", "gone"} THEN rmReturn(n, NoErr)
    ELSE [n EXCEPT !.pc = "SleepInfo"])

\* Unlock, Sleep, Lock and the loop's i++ and test, in waitRemove
rmSleepInfo(r) ==
    Bind(rmLog(r, [k |-> "Sleep", err |-> NoErr]), LAMBDA n :
    IF LoopAgain(r.i + 1) THEN [n EXCEPT !.pc = "GetInfo", !.i = r.i + 1]
    ELSE rmReturn([n EXCEPT !.i = r.i + 1], "Timeout"))

RemoveFrame ==
    UNCHANGED <<running, Devices, deviceIdMap, NextDeviceId, TransactionId, Transaction,
                files, hasImage, poolExists, thinIds, poolTxId, dmDevices, mounts, trace,
                mon, wr, del, threads, doBlkDiscard, thinPoolDevice, freed>>

DoRemoveDeviceAndWait ==
    /\ rmwait.pc \in {"idle", "returned"}
    /\ ops < MaxOps
    /\ ops' = ops + 1
    /\ rmwait' = IF LoopAgain(0) THEN [NoRemove EXCEPT !.pc = "RemoveDevice"]
             ELSE rmReturn(NoRemove, NoErr)
    /\ last' = Last("removeDeviceAndWait", "A", "", "running")
    /\ RemoveFrame

RemoveCall ==
    /\ rmwait.pc = "RemoveDevice"
    /\ \E answer \in RemoveAnswers : rmwait' = rmRemove(rmwait, answer)
    /\ last' = [last EXCEPT !.err = IF rmwait'.pc = "returned" THEN rmwait'.err ELSE @]
    /\ UNCHANGED ops
    /\ RemoveFrame

RemoveSleep ==
    /\ rmwait.pc = "Sleep"
    /\ rmwait' = rmSleep(rmwait)
    /\ last' = [last EXCEPT !.err = IF rmwait'.pc = "returned" THEN rmwait'.err ELSE @]
    /\ UNCHANGED ops
    /\ RemoveFrame

InfoCall ==
    /\ rmwait.pc = "GetInfo"
    /\ \E answer \in InfoAnswers : rmwait' = rmGetInfo(rmwait, answer)
    /\ last' = [last EXCEPT !.err = IF rmwait'.pc = "returned" THEN rmwait'.err ELSE @]
    /\ UNCHANGED ops
    /\ RemoveFrame

InfoSleep ==
    /\ rmwait.pc = "SleepInfo"
    /\ rmwait' = rmSleepInfo(rmwait)
    /\ last' = [last EXCEPT !.err = IF rmwait'.pc = "returned" THEN rmwait'.err ELSE @]
    /\ UNCHANGED ops
    /\ RemoveFrame

RemoveSteps == RemoveCall \/ RemoveSleep \/ InfoCall \/ InfoSleep

NextRemove == DoRemoveDeviceAndWait \/ RemoveSteps

\* The thread inside removeDeviceAndWait keeps running: the kernel calls
\* return and the sleeps end
SpecRemove == InitMount /\ [][NextRemove]_vars /\ WF_vars(RemoveSteps)

(***************************************************************************)
(* The device-id allocator alone: getNextFreeDeviceId on every bitmap and  *)
(* every cursor.                                                           *)
(***************************************************************************)
InitAlloc ==
    /\ running = TRUE
    /\ Devices = <<>>
    /\ deviceIdMap \in SUBSET Ids
    /\ NextDeviceId \in Ids
    /\ TransactionId = 0
    /\ Transaction = [OpenTransactionId |-> 0, DeviceIdHash |-> "", DeviceId |-> 0]
    /\ files = <<>>
    /\ hasImage = [data |-> FALSE, metadata |-> FALSE, size |-> 0]
    /\ poolExists = TRUE
    /\ thinIds = {}
    /\ poolTxId = 0
    /\ dmDevices = <<>>
    /\ mounts = {}
    /\ trace = <<>>
    /\ last = Last("none", "", "", NoErr)
    /\ mon = NoMon
    /\ wr = NoWrite
    /\ del = NoDelete
    /\ threads = NoThreads
    /\ freed = {}
    /\ rmwait = NoRemove
    /\ doBlkDiscard = TRUE
    /\ thinPoolDevice = FALSE
    /\ ops = 0

DoGetNextFreeDeviceId ==
    /\ \E r \in {getNextFreeDeviceId(Cur)} :
          /\ Becomes(r.s)
          /\ last' = Last("getNextFreeDeviceId", "", r.val, r.err)
    /\ UNCHANGED <<running, mon>>

DoMarkDeviceIdFree ==
    /\ \E id \in deviceIdMap :
          /\ Becomes(markDeviceIdFree(Cur, id))
          /\ last' = Last("markDeviceIdFree", "", id, NoErr)
    /\ UNCHANGED <<running, mon>>

NextAlloc == DoGetNextFreeDeviceId \/ DoMarkDeviceIdFree

SpecAlloc == InitAlloc /\ [][NextAlloc]_vars

(***************************************************************************)
(* The threads with the registry: lookupDevice hands out the DevInfo       *)
(* object registered for the hash at that moment (told apart by its device *)
(* id), a thread locks the object it was handed, unregisterDevice drops    *)
(* the object and registerDevice puts a new one.                           *)
(***************************************************************************)
WaitOps == {"AddDevice", "DeleteDevice", "MountDevice", "UnmountDevice"}

\* What the critical section of devicesLock that ends at th.pc does
RegistryRole(th) ==
    LET k == Cardinality({i \in 1 .. th.pc : /\ ProgramOf(th)[i].i = "Unlock"
                                             /\ ProgramOf(th)[i].lock = Registry})
    IN CASE th.op = "AddDevice" /\ k = 1 -> [what |-> "lookup", hash |-> th.base]
         [] th.op = "AddDevice" /\ k = 2 -> [what |-> "absent", hash |-> th.hash]
         [] th.op = "AddDevice" /\ k = 3 -> [what |-> "register", hash |-> th.hash]
         [] th.op = "DeleteDevice" /\ k = 2 -> [what |-> "unregister", hash |-> th.hash]
         [] OTHER -> [what |-> "lookup", hash |-> th.hash]

\* The lock the instruction names, for the object the thread was handed
Resolved(th, ins) ==
    IF ins.lock.lock = "info" THEN [ins.lock EXCEPT !.id = th.obj] ELSE ins.lock

Returned(th, n) == IF n.pc > Len(ProgramOf(th)) THEN IdleThread ELSE n

WaitFrame ==
    UNCHANGED <<running, deviceIdMap, TransactionId, Transaction,
                files, hasImage, poolExists, thinIds, poolTxId, dmDevices, mounts, trace,
                last, mon, wr, del, doBlkDiscard, thinPoolDevice, ops, freed, rmwait>>

StepRegistry(t) ==
    /\ threads[t].op # "idle"
    /\ LET th == threads[t]
           ins == ProgramOf(th)[th.pc]
           role == RegistryRole(th)
           found == role.hash \in DOMAIN Devices
           n == [th EXCEPT !.held = Without(@, Registry), !.pc = @ + 1]
       IN /\ ins.i = "Unlock" /\ ins.lock = Registry
          /\ threads' = [threads EXCEPT ![t] =
                CASE role.what = "lookup" /\ found ->
                         Returned(th, [n EXCEPT !.obj = Devices[role.hash].DeviceId])
                  [] role.what = "lookup" /\ ~found -> IdleThread
                  [] role.what = "absent" /\ found -> IdleThread
                  [] OTHER -> Returned(th, n)]
          /\ Devices' =
                CASE role.what = "register" ->
                         Put(Devices, role.hash,
                             [NewDevInfo(role.hash) EXCEPT !.DeviceId = NextDeviceId])
                  [] role.what = "unregister" -> Drop(Devices, role.hash)
                  [] OTHER -> Devices
    /\ UNCHANGED NextDeviceId
    /\ WaitFrame

\* getNextFreeDeviceId in AddDevice: the cursor moves to the id handed out
StepAllocate(t) ==
    /\ threads[t].op = "AddDevice"
    /\ LET th == threads[t]
           ins == ProgramOf(th)[th.pc]
       IN /\ ins.i = "use" /\ ins.call = "deviceIdMap"
          /\ NextDeviceId < MaxDeviceId
          /\ threads' = [threads EXCEPT ![t] = [th EXCEPT !.pc = @ + 1]]
    /\ NextDeviceId' = NextDeviceId + 1
    /\ UNCHANGED Devices
    /\ WaitFrame

\* Every other instruction; a Lock waits until no thread holds the lock
StepObject(t) ==
    /\ threads[t].op # "idle"
    /\ LET th == threads[t]
           ins == ProgramOf(th)[th.pc]
           l == Resolved(th, ins)
       IN /\ ~(ins.i = "Unlock" /\ ins.lock = Registry)
          /\ ~(th.op = "AddDevice" /\ ins.i = "use" /\ ins.call = "deviceIdMap")
          /\ ins.i = "Lock" => \A u \in Threads : ~Holds(threads[u], l)
          /\ \E n \in {Exec(th, [ins EXCEPT !.lock = l])} :
                threads' = [threads EXCEPT ![t] = Returned(th, n)]
    /\ LockFrame

NextWait ==
    \E t \in Threads :
        \/ CallOf(t, WaitOps)
        \/ StepRegistry(t)
        \/ StepAllocate(t)
        \/ StepObject(t)
        \/ EarlyReturn(t)

SpecWait == InitMount /\ [][NextWait]_vars

(***************************************************************************)
(* Shutdown: the started device set, with its own pool or an external      *)
(* one; devices are mounted and unmounted, snapshots move the cursor, the  *)
(* process exits after Shutdown and starts again.  The threads run         *)
(* Shutdown and UnmountDevice on the device set as started.                *)
(***************************************************************************)
OwnOrExternal(external) ==
    [Fresh EXCEPT !.thinPoolDevice = external, !.poolExists = external,
                  !.doBlkDiscard = ~external]

InitShutdown ==
    /\ \E external \in BOOLEAN : Is(StartedWithA(OwnOrExternal(external)))
    /\ last = Last("none", "", "", NoErr)

Sequential == threads = NoThreads

NextShutdown ==
    \/ Sequential /\ DoMountDevice(MountHashes, {NoFault})
    \/ Sequential /\ DoShutdown(ShutdownOracles(NoLeftover))
    \/ Sequential /\ DoAddDevice({"", "B"}, {NoFault})
    \/ Sequential /\ Crash
    \/ Sequential /\ StartupWith(FALSE, NoFault)
    \/ ops = 0 /\ \E t \in Threads : CallOf(t, {"Shutdown", "UnmountDevice"})
    \/ ops = 0 /\ \E t \in Threads : Step(t)
    \/ ops = 0 /\ \E t \in Threads : EarlyReturn(t)

SpecShutdown == InitShutdown /\ [][NextShutdown]_vars

(***************************************************************************)
(* writeMetaFile one step at a time, with the process killed at any step.  *)
(* last keeps the call: its path, its data and the target as it was.       *)
(***************************************************************************)
WriteInputs ==
    {<<metadataFile(h), MarshalDevInfo([NewDevInfo(h) EXCEPT !.DeviceId = i])>> :
        h \in MountHashes, i \in 1 .. 2}
    \cup {<<transactionMetaFile,
            MarshalTransaction([OpenTransactionId |-> i, DeviceIdHash |-> "A", DeviceId |-> 2])>> :
        i \in 2 .. 3}
    \cup {<<deviceSetMetaFile, MarshalDeviceSet([NextDeviceId |-> i])>> : i \in 1 .. 2}

Target(f, path) == IF path \in DOMAIN f THEN {f[path]} ELSE {}

WriteFrame ==
    UNCHANGED <<running, Devices, deviceIdMap, NextDeviceId, TransactionId, Transaction,
                hasImage, poolExists, thinIds, poolTxId, dmDevices, mounts, trace, mon,
                del, threads, doBlkDiscard, thinPoolDevice, freed, rmwait>>

DoWriteMetaFile ==
    \E in \in WriteInputs :
        /\ wr.pc \in {"idle", "returned"}
        /\ ops < MaxOps
        /\ ops' = ops + 1
        /\ wr' = wmBegin(in[2], in[1])
        /\ last' = [op |-> "writeMetaFile", hash |-> in[1], arg |-> in[2], err |-> "running",
                    pre |-> Target(files, in[1])]
        /\ UNCHANGED files
        /\ WriteFrame

WriteStep ==
    \E fail \in BOOLEAN :
        /\ wr.pc \notin {"idle", "returned"}
        /\ \E r \in {wmStep(files, wr, fail)} :
              /\ files' = r.files
              /\ wr' = r.w
              /\ last' = [last EXCEPT !.err = IF r.w.pc = "returned" THEN r.w.err ELSE @]
        /\ UNCHANGED ops
        /\ WriteFrame

\* The process is killed during the call and started again
WriteCrash ==
    /\ wr.pc \notin {"idle", "returned"}
    /\ wr' = NoWrite
    /\ last' = [last EXCEPT !.err = "killed"]
    /\ UNCHANGED <<files, ops>>
    /\ WriteFrame

InitWrite == \E s \in {Started(Fresh)} : Is(s) /\ last = Last("none", "", "", NoErr)

NextWrite == DoWriteMetaFile \/ WriteStep \/ WriteCrash

SpecWrite == InitWrite /\ [][NextWrite]_vars

(***************************************************************************)
(* saveMetadata of a record, then loadMetadata of its hash.                *)
(***************************************************************************)
Records ==
    [Hash : Hashes, DeviceId : Ids, Size : {0, DefaultBaseFsSize},
     TransactionId : 0 .. MaxTxn, Initialized : BOOLEAN,
     mountCount : 0 .. MaxMount, mountPath : Paths \cup {""}]

InitRoundTrip ==
    /\ \E s \in {Started(Fresh)} : Is(s)
    /\ \E r \in Records :
          last = [op |-> "record", hash |-> r.Hash, arg |-> r, err |-> NoErr, pre |-> {}]

DoSaveMetadata ==
    \E failAt \in WriteSteps \cup {"none"} :
        /\ last.op = "record"
        /\ \E r \in {saveMetadata(Cur, last.arg, failAt)} :
              /\ Becomes(r.s)
              /\ last' = [last EXCEPT !.op = "saveMetadata", !.err = r.err]
        /\ UNCHANGED <<running, mon>>

DoLoadMetadata ==
    /\ last.op = "saveMetadata"
    /\ Becomes(Cur)
    /\ last' = [last EXCEPT !.op = "loadMetadata", !.pre = loadMetadata(Cur, last.hash)]
    /\ UNCHANGED <<running, mon>>

NextRoundTrip == DoSaveMetadata \/ DoLoadMetadata

SpecRoundTrip == InitRoundTrip /\ [][NextRoundTrip]_vars

(***************************************************************************)
(* Properties.                                                             *)
(***************************************************************************)
Events(tr, P(_)) == {i \in DOMAIN tr : P(tr[i])}
IsPoolDelete(e) == e.k = "DeleteDevice"
IsFailedPoolDelete(e) == e.k = "DeleteDevice" /\ e.err # NoErr
IsRemove(e) == e.k = "remove"
IsFailedRemove(e) == e.k = "remove" /\ e.err # NoErr
IsRemovePending(e) == e.k = "remove" /\ e.path = transactionMetaFile /\ e.err = NoErr
IsReturn(e) == e.k = "return"

\* C1: no two records of the registry have the same device_id, and no two
\* have the same hash.
C1_UniqueIdsAndHashes ==
    \A h1, h2 \in DOMAIN Devices :
        h1 # h2 => /\ Devices[h1].DeviceId # Devices[h2].DeviceId
                   /\ Devices[h1].Hash # Devices[h2].Hash

\* C2: every record of the registry has its device_id marked used in the
\* bitmap.
C2_RegisteredIdsUsed ==
    \A h \in DOMAIN Devices : Devices[h].DeviceId \in deviceIdMap

\* The pending-transaction record on disk, and whether it is ahead of the pool
HasPending == transactionMetaFile \in DOMAIN files /\ Complete(files[transactionMetaFile])
Pending == files[transactionMetaFile].data
PendingAhead == HasPending /\ Pending.open_transaction_id > poolTxId

\* The step is a startup without do_init (the replay alone)
ReplayStep == last'.op = "Startup" /\ last'.arg = FALSE

RolledBack ==
    /\ metadataFile(Pending.device_hash) \notin DOMAIN files'
    /\ Pending.device_id \notin deviceIdMap'
    /\ transactionMetaFile \notin DOMAIN files'
    /\ poolTxId' = poolTxId
    /\ TransactionId' = poolTxId
    /\ Transaction'.OpenTransactionId = poolTxId

DiskIds(f) == {f[n].data.device_id : n \in {x \in DOMAIN f : x \notin {deviceSetMetaFile,
                                                   transactionMetaFile, TmpFile}}}

\* C4: a startup that finds no pending record, or one that is not ahead of
\* the pool, issues no kernel delete, removes no file, leaves the metadata
\* directory as it was and has every device record's id marked used.
C4_NoRollback ==
    [][(ReplayStep /\ ~PendingAhead) =>
         /\ Events(trace', IsPoolDelete) = {}
         /\ Events(trace', IsRemove) = {}
         /\ files' = files
         /\ (last'.err = NoErr => DiskIds(files) \subseteq deviceIdMap')]_vars

C4_Witness ==
    /\ last.op = "Startup" /\ last.arg = FALSE /\ last.err = NoErr
    /\ HasPending /\ Pending.open_transaction_id = poolTxId
    /\ Pending.device_hash = "A" /\ "A" \in DOMAIN files
    /\ files["A"].data.device_id \in deviceIdMap

\* C5: a create or a delete that succeeds raises the pool's transaction id
\* (in the pool and in memory) by exactly 1, one that fails leaves it, and
\* the record of a successful create carries the id the pool has then.
C5_TransactionMonotonic ==
    \A i \in Events(trace, IsReturn) :
        LET e == trace[i]
        IN /\ e.err = NoErr => e.tx1 = e.tx0 + 1 /\ e.ptx1 = e.ptx0 + 1 /\ e.ptx1 = e.tx1
           /\ e.err # NoErr => e.tx1 = e.tx0 /\ e.ptx1 = e.ptx0
           /\ (e.err = NoErr /\ e.op # "deleteDevice") => e.rtx = e.ptx1

C5_Witness ==
    /\ last.op = "DeleteDevice" /\ last.err = NoErr
    /\ \E i \in Events(trace, IsReturn) : trace[i].err = NoErr /\ trace[i].tx1 = 3

\* C6: while a metadata write is in progress, after it has returned and
\* after the process was killed at any of its steps, the target file is
\* what it was before the call (absent if it was absent) or the complete
\* new content, never a part of it.
C6_AtomicWrite ==
    last.op = "writeMetaFile" =>
        \/ Target(files, last.hash) = last.pre
        \/ Target(files, last.hash) = {Content(last.arg, NChunks)}

C6_Witness ==
    /\ last.op = "writeMetaFile" /\ last.err = "killed"
    /\ TmpFile \in DOMAIN files /\ files[TmpFile].n = 1 /\ files[TmpFile].data = last.arg
    /\ last.pre # {} /\ Target(files, last.hash) = last.pre
    /\ last.pre # {Content(last.arg, NChunks)}

\* C7: saving a record and then loading the metadata of its hash gives a
\* record with the same hash, device_id, size, transaction_id and
\* initialized flag, with mount_count 0 and mount_path empty.
C7_RoundTrip ==
    (last.op = "loadMetadata" /\ last.err = NoErr) =>
        last.pre = {[last.arg EXCEPT !.mountCount = 0, !.mountPath = ""]}

C7_Witness ==
    /\ last.op = "loadMetadata" /\ last.err = NoErr
    /\ last.arg.Hash = "A" /\ last.arg.Size = DefaultBaseFsSize /\ last.arg.Initialized
    /\ last.arg.mountCount = 2 /\ last.arg.mountPath # ""
    /\ last.pre # {}

\* C8: in a run of N successful mounts of h at p followed by successful
\* unmounts of h, the kernel mounted once; until the last unmount there was
\* no kernel unmount and no deactivation, mount_count is the number of
\* mounts minus the number of unmounts and the device is mounted and
\* active; after the N-th unmount there was one kernel unmount and one
\* deactivation, mount_count is 0 and mount_path is empty.
C8_MountRefcount ==
    mon.phase # "idle" =>
        LET info == Devices[mon.hash]
        IN /\ mon.km = 1
           /\ mon.u < mon.m =>
                /\ mon.ku = 0 /\ mon.kd = 0
                /\ info.mountCount = mon.m - mon.u
                /\ info.mountPath = mon.path
                /\ <<Name(mon.hash), mon.path>> \in mounts
                /\ dmExists(Cur, Name(mon.hash))
           /\ mon.u = mon.m =>
                /\ mon.ku = 1 /\ mon.kd = 1
                /\ info.mountCount = 0
                /\ info.mountPath = ""

C8_Witness ==
    /\ mon.phase = "unmounting" /\ mon.m = 2 /\ mon.u = 2
    /\ mon.km = 1 /\ mon.ku = 1 /\ mon.kd = 1

\* C9: MountDevice(h, q) on a record mounted at another path fails with
\* AlreadyMountedElsewhere, calls nothing and changes neither the records
\* nor the mounts nor the active devices.
C9_MountedElsewhere ==
    [][(/\ last'.op = "MountDevice"
        /\ last'.hash \in DOMAIN Devices
        /\ Devices[last'.hash].mountCount > 0
        /\ Devices[last'.hash].mountPath # last'.arg) =>
          /\ last'.err = "AlreadyMountedElsewhere"
          /\ trace' = <<>>
          /\ Devices' = Devices
          /\ mounts' = mounts
          /\ dmDevices' = dmDevices]_vars

C9_Witness ==
    /\ last.op = "MountDevice" /\ last.err = "AlreadyMountedElsewhere"
    /\ last.pre.count = 1 /\ last.pre.path = "/mnt/x" /\ last.arg = "/mnt/y"
    /\ <<Name(last.hash), "/mnt/x">> \in mounts

\* C10: every record with mount_count > 0 has its device active and a
\* non-empty mount_path, and every record with mount_count 0 has an empty
\* mount_path.
C10_MountedIsActive ==
    \A h \in DOMAIN Devices :
        /\ Devices[h].mountCount > 0 =>
             dmExists(Cur, Name(h)) /\ Devices[h].mountPath # ""
        /\ Devices[h].mountCount = 0 => Devices[h].mountPath = ""

\* C11: UnmountDevice on a record with mount_count 0 fails with NotMounted,
\* calls nothing (no unmount, no deactivation) and changes neither the
\* records nor the mounts nor the active devices; and mount_count is never
\* negative.
C11_NotMounted ==
    /\ [](\A h \in DOMAIN Devices : Devices[h].mountCount >= 0)
    /\ [][(/\ last'.op = "UnmountDevice"
           /\ last'.hash \in DOMAIN Devices
           /\ Devices[last'.hash].mountCount = 0) =>
             /\ last'.err = "NotMounted"
             /\ trace' = <<>>
             /\ Devices' = Devices
             /\ mounts' = mounts
             /\ dmDevices' = dmDevices]_vars

C11_Witness ==
    /\ last.op = "UnmountDevice" /\ last.err = "NotMounted"
    /\ last.pre.cached /\ last.pre.count = 0
    /\ Devices[last.hash].mountCount = 0
    /\ dmExists(Cur, Name(last.hash))

\* C12: the first startup with do_init on a fresh root gives the base
\* record device_id 1 and transaction_id 1; a successful AddDevice gives the
\* new record the id after the cursor (when that id is free) and the
\* transaction id after the current one, which the pool then has, so that
\* two AddDevice calls after the first startup give ids 2 and 3 and leave
\* the pool at transaction id 3; the new record has the size of its base;
\* AddDevice activates no device, neither the new one nor the base.
FirstStartup == ops = 1 /\ last.op = "Startup" /\ last.err = NoErr
ChainOfTwo == ops = 3 /\ last.op = "AddDevice" /\ last.err = NoErr
                      /\ Cardinality(DOMAIN Devices) = 3

C12_SnapshotChain ==
    /\ [](FirstStartup =>
            /\ DOMAIN Devices = {""}
            /\ Devices[""].DeviceId = 1 /\ Devices[""].TransactionId = 1
            /\ Devices[""].Initialized
            /\ poolTxId = 1 /\ TransactionId = 1)
    /\ [](ChainOfTwo =>
            /\ Devices[last.hash].DeviceId = 3 /\ Devices[last.hash].TransactionId = 3
            /\ \A h \in DOMAIN Devices \ {"", last.hash} :
                   Devices[h].DeviceId = 2 /\ Devices[h].TransactionId = 2
            /\ poolTxId = 3 /\ TransactionId = 3
            /\ DOMAIN dmDevices = {Name("")})
    /\ [][last'.op = "AddDevice" =>
            /\ dmDevices' = dmDevices
            /\ last'.err = NoErr =>
                 /\ Devices'[last'.hash].Size = Devices'[last'.arg].Size
                 /\ Devices'[last'.hash].TransactionId = TransactionId + 1
                 /\ poolTxId' = TransactionId + 1
                 /\ (NextDeviceId < MaxDeviceId
                        /\ NextDeviceId + 1 \notin deviceIdMap \cup thinIds) =>
                      Devices'[last'.hash].DeviceId = NextDeviceId + 1]_vars

C12_Witness ==
    /\ ChainOfTwo /\ last.hash = "B" /\ last.arg = "A"
    /\ Devices["A"].DeviceId = 2 /\ Devices["B"].DeviceId = 3
    /\ Devices["B"].TransactionId = 3 /\ poolTxId = 3
    /\ Devices["B"].Size = 2 * DefaultBaseFsSize
    /\ ~dmExists(Cur, Name("A")) /\ ~dmExists(Cur, Name("B"))

\* A hash has a record when it is cached or its metadata file decodes
HasRecord(hash) == hash \in DOMAIN Devices \/ loadMetadata(Cur, hash) # {}

\* The AddDevice step is refused: the base has no record, or the hash has one
RefusedAdd ==
    /\ last'.op = "AddDevice"
    /\ ~HasRecord(last'.arg) \/ HasRecord(last'.hash)

RefusedAddError ==
    last'.err = IF ~HasRecord(last'.arg) THEN "UnknownDevice" ELSE "DeviceExists"

\* Nothing allocated, no transaction opened, nothing called, no file touched
NothingAllocated ==
    /\ trace' = <<>>
    /\ NextDeviceId' = NextDeviceId
    /\ deviceIdMap' = deviceIdMap
    /\ Transaction' = Transaction
    /\ TransactionId' = TransactionId
    /\ files' = files
    /\ poolTxId' = poolTxId
    /\ thinIds' = thinIds

\* The records the lookups of the step found on disk are now cached
OnlyLoaded ==
    /\ \A h \in DOMAIN Devices : h \in DOMAIN Devices' /\ Devices'[h] = Devices[h]
    /\ \A h \in DOMAIN Devices' \ DOMAIN Devices :
          /\ h \in {last'.hash, last'.arg}
          /\ loadMetadata(Cur, h) = {Devices'[h]}

\* C13 as stated: AddDevice with a hash that has a record (cached or on
\* disk) fails with DeviceExists, and with a base that has none fails with
\* UnknownDevice; no id is allocated, the cursor does not move, no
\* transaction is opened, and registry, bitmap, metadata files and pool
\* transaction id are unchanged.
C13_RefusedAddAsStated ==
    [][RefusedAdd => RefusedAddError /\ NothingAllocated /\ Devices' = Devices]_vars

\* C13 amended: the same, but the registry is unchanged only up to the
\* records that the lookups of the base and of the hash loaded from disk.
C13_RefusedAdd ==
    [][RefusedAdd => RefusedAddError /\ NothingAllocated /\ OnlyLoaded]_vars

C13_Witness ==
    /\ last.op = "AddDevice" /\ last.err = "DeviceExists"
    /\ last.hash = "A" /\ ~last.pre.cached
    /\ "A" \in DOMAIN Devices /\ loadMetadata(Cur, "A") = {Devices["A"]}
    /\ trace = <<>>

\* The ids the kernel reported as existing, and the errors of the clean-up
\* calls, among the calls of one create
ReportedExisting(calls) ==
    {calls[i].id : i \in {j \in DOMAIN calls : calls[j].err = "DeviceIdExists"}}
CleanupErrors(calls) ==
    {calls[i].err : i \in {j \in DOMAIN calls : calls[j].k \in {"DeleteDevice", "remove"}}}
IsFailedCreate(e) ==
    /\ e.k = "return"
    /\ e.op \in {"createRegisterDevice", "createRegisterSnapDevice"}
    /\ e.err # NoErr

\* C14: when a create (of a snapshot or of the base) returns an error, the
\* registry holds no record for the new hash, no metadata file for it
\* remains, the pool's transaction id is what it was, every id the call
\* marked is free again except those the kernel reported as existing, and
\* the error is not the error of a clean-up call.
C14_FailedCreateUndone ==
    \A i \in Events(trace, IsFailedCreate) :
        LET e == trace[i]
        IN /\ ~e.reg
           /\ ~e.file
           /\ e.ptx1 = e.ptx0
           /\ e.ids \subseteq ReportedExisting(e.calls)
           /\ e.err \notin CleanupErrors(e.calls)

\* The deleteDevice in flight has not returned and will return nil; it has
\* returned nil
Deleting ==
    /\ del.pc \notin {"idle", "returned"}
    /\ deleteDeviceBody(del.pre, del.info, del.o).err = NoErr
Deleted == last.op = "DeleteDevice" /\ del.pc = "returned" /\ del.err = NoErr

IsDeleteCall(e) ==
    e.k \in {"RemoveDevice", "write", "DeleteDevice", "remove", "SetTransactionId"}
Kinds(tr) == [i \in DOMAIN tr |-> tr[i].k]
DeleteOrder == <<"write", "DeleteDevice", "remove", "SetTransactionId">>

\* C15: a successful DeleteDevice(h) has removed the kernel device if there
\* was one, then opened the transaction, deleted the thin device of the
\* record's id, unregistered the record and committed, in that order, and
\* freed the id at the very end; afterwards h has no record in the registry
\* or on disk, its device is not active and its id is free; while the call
\* runs the id is marked used as long as the record is cached or on disk,
\* and the device is not active once the transaction is open.  The
\* statements run one by one give what the whole call gives.
C15_DeleteOrder ==
    /\ Deleting =>
         /\ (del.hash \in DOMAIN Devices \/ metadataFile(del.hash) \in DOMAIN files) =>
                del.info.DeviceId \in deviceIdMap
         /\ del.info.DeviceId \in del.pre.deviceIdMap => del.info.DeviceId \in deviceIdMap
         /\ del.pc \in {"delete", "unregister", "commit", "free"} =>
                ~dmExists(Cur, Name(del.hash))
    /\ Deleted =>
         /\ Kinds(SelectSeq(trace, IsDeleteCall)) \in
                {DeleteOrder, <<"RemoveDevice">> \o DeleteOrder}
         /\ \E i \in DOMAIN trace :
                trace[i].k = "DeleteDevice" /\ trace[i].id = del.info.DeviceId
         /\ del.hash \notin DOMAIN Devices
         /\ metadataFile(del.hash) \notin DOMAIN files
         /\ del.info.DeviceId \notin deviceIdMap
         /\ ~dmExists(Cur, Name(del.hash))
    /\ (last.op = "DeleteDevice" /\ del.pc = "returned" /\ "pre" \in DOMAIN del) =>
         Bind(deleteDeviceBody(del.pre, del.info, del.o), LAMBDA r :
              r.err = del.err /\ [r.s EXCEPT !.trace = <<>>] = [Cur EXCEPT !.trace = <<>>])

C15_Witness ==
    /\ Deleted /\ del.hash = "A"
    /\ Kinds(SelectSeq(trace, IsDeleteCall)) = <<"RemoveDevice">> \o DeleteOrder
    /\ del.info.DeviceId \in del.pre.deviceIdMap
    /\ dmExists(del.pre, Name("A"))

\* C16: no thread holds a per-device lock that it acquired while holding
\* the DeviceSet's lock (the locks a thread holds are in the order it
\* acquired them), also after a wait utility has slept and re-acquired the
\* DeviceSet's lock; and a thread in AddDevice(hash, base) that holds the
\* DeviceSet's lock took the lock of the base record first, and holds no
\* lock of the child.
C16_LockOrder ==
    \A t \in Threads :
        LET th == threads[t]
        IN /\ \A i, j \in DOMAIN th.held :
                 (i < j /\ th.held[i] = Global) => th.held[j].lock # "info"
           /\ th.op = "AddDevice" =>
                 /\ Holds(th, Global) => th.held[1] = InfoLock(th.base)
                 /\ \A i \in DOMAIN th.held :
                        th.held[i].lock = "info" => th.held[i].hash = th.base

\* A thread has slept in a wait utility and holds both locks again, while
\* another thread is in AddDevice with the other record as its base
C16_Witness ==
    \E t, u \in Threads :
        /\ threads[t].op = "UnmountDevice" /\ threads[t].hash = "A"
        /\ threads[t].held = <<InfoLock("A"), Global>>
        /\ threads[t].pc > 8
        /\ threads[u].op = "AddDevice" /\ threads[u].hash = "A" /\ threads[u].base = ""
        /\ threads[u].held = <<InfoLock("")>>

\* C17: a thread inside a device-mapper call holds the DeviceSet's lock,
\* so no two threads are inside device-mapper calls at once, and a thread
\* about to use the bitmap, the cursor, the transaction id or the pending
\* transaction holds it too.
C17_KernelCallsLocked ==
    /\ \A t \in Threads : threads[t].in => Holds(threads[t], Global)
    /\ \A t, u \in Threads : (threads[t].in /\ threads[u].in) => t = u
    /\ \A t \in Threads :
          (threads[t].op # "idle" /\ ProgramOf(threads[t])[threads[t].pc].i = "use") =>
              Holds(threads[t], Global)

\* The step is a startup with do_init; what its lookup of the base found
InitStep == last'.op = "Startup" /\ last'.arg = TRUE
IsOldInfo(e) == e.k = "oldInfo"
IsMkfsFailed(e) == e.k = "mkfs" /\ e.err # NoErr
IsBaseCreated(e) == e.k = "return" /\ e.op = "createRegisterDevice" /\ e.err = NoErr
IsCreateReturn(e) == e.k = "return"
IsPendingWrite(e) == e.k = "write" /\ e.path = transactionMetaFile
BaseOnDisk(f) ==
    IF metadataFile("") \in DOMAIN f /\ Complete(f[metadataFile("")])
    THEN {f[metadataFile("")].data} ELSE {}

\* C18: after a successful startup with do_init the registry has one
\* record of hash "", initialized, and so has the disk; a successful
\* startup that finds an uninitialized base deletes its thin device and its
\* record and then creates the base under an id the allocator hands out
\* after that; a startup that finds an initialized base succeeds, creates
\* nothing, writes no pending transaction and marks no id; after a failed
\* mkfs the record on disk has initialized = false.
C18_BaseImage ==
    [][InitStep =>
         /\ last'.err = NoErr =>
              /\ Cardinality({h \in DOMAIN Devices' : Devices'[h].Hash = ""}) = 1
              /\ Devices'[""].Initialized
              /\ \E d \in BaseOnDisk(files') :
                     d.initialized /\ d.device_id = Devices'[""].DeviceId
         /\ \A i \in Events(trace', IsOldInfo) :
              /\ (last'.err = NoErr /\ trace'[i].found /\ ~trace'[i].Initialized) =>
                   \E j, k \in DOMAIN trace' :
                       /\ i < j /\ j < k
                       /\ trace'[j] = [k |-> "DeleteDevice", id |-> trace'[i].DeviceId,
                                       err |-> NoErr]
                       /\ \E m \in j + 1 .. k :
                              trace'[m] = [k |-> "remove", path |-> metadataFile(""),
                                           err |-> NoErr]
                       /\ IsBaseCreated(trace'[k])
                       /\ Devices'[""].DeviceId \in trace'[k].ids
              /\ (trace'[i].found /\ trace'[i].Initialized) =>
                   /\ last'.err = NoErr
                   /\ i = Len(trace')
                   /\ Events(trace', IsCreateReturn) = {}
                   /\ Events(trace', IsPendingWrite) = {}
                   /\ deviceIdMap' = trace'[i].used
                   /\ TransactionId' = trace'[i].tx
         /\ Events(trace', IsMkfsFailed) # {} =>
              /\ last'.err # NoErr
              /\ \E d \in BaseOnDisk(files') : ~d.initialized]_vars

\* A startup found the base left uninitialized by a failed mkfs, deleted it
\* and created it again
C18_Witness ==
    /\ last.op = "Startup" /\ last.arg = TRUE /\ last.err = NoErr
    /\ \E i \in Events(trace, IsOldInfo) : trace[i].found /\ ~trace[i].Initialized
    /\ Events(trace, IsBaseCreated) # {}
    /\ Devices[""].Initialized

\* C19: with an external thin-pool, a startup with do_init whose lookup
\* finds no base record, while the pool has a transaction id other than 0
\* or used data blocks, fails and does nothing after the lookup (no create,
\* so no id, no pending transaction and no device); with the pool at
\* transaction id 0 and without used blocks it goes on to create the base;
\* a startup that finds a base record does not fail for the state of the
\* pool: an initialized base makes it succeed, an uninitialized base whose
\* deletion succeeds makes it go on to create the base.
PoolInUse(e) == e.ptx # 0 \/ e.thin # {}

C19_ThinPoolOwnership ==
    [][(InitStep /\ thinPoolDevice) =>
         \A i \in Events(trace', IsOldInfo) :
            /\ (~trace'[i].found /\ PoolInUse(trace'[i])) =>
                 /\ last'.err \in {"Unable to take ownership of thin-pool: used data blocks",
                                   "Unable to take ownership of thin-pool: transaction id"}
                 /\ i = Len(trace')
                 /\ thinIds' = trace'[i].thin
                 /\ poolTxId' = trace'[i].ptx
                 /\ Events(trace', IsPendingWrite) = {}
                 /\ Events(trace', IsCreateReturn) = {}
            /\ (~trace'[i].found /\ ~PoolInUse(trace'[i])) =>
                 \E k \in Events(trace', IsCreateReturn) : k > i
            /\ (trace'[i].found /\ trace'[i].Initialized) => last'.err = NoErr
            /\ (trace'[i].found /\ ~trace'[i].Initialized /\ PoolInUse(trace'[i])) =>
                 \/ \E k \in Events(trace', IsCreateReturn) : k > i
                 \/ Events(trace', IsCreateReturn) = {} /\ last'.err \notin
                        {NoErr, "Unable to take ownership of thin-pool: used data blocks",
                         "Unable to take ownership of thin-pool: transaction id"}]_vars

\* The startup refused a pool in use
C19_Witness ==
    /\ thinPoolDevice
    /\ last.op = "Startup" /\ last.arg = TRUE
    /\ last.err = "Unable to take ownership of thin-pool: used data blocks"
    /\ \E i \in Events(trace, IsOldInfo) : ~trace[i].found /\ trace[i].thin # {}
    /\ Devices = <<>> /\ deviceIdMap = {}

\* A startup found its uninitialized base in a pool in use and created the
\* base again
C19_Adopted ==
    /\ thinPoolDevice
    /\ last.op = "Startup" /\ last.arg = TRUE /\ last.err = NoErr
    /\ \E i \in Events(trace, IsOldInfo) :
          trace[i].found /\ ~trace[i].Initialized /\ PoolInUse(trace[i])

\* The calls of the resize step, in order
RECURSIVE KindsOf(_)
KindsOf(tr) == IF tr = <<>> THEN <<>> ELSE <<Head(tr).k>> \o KindsOf(Tail(tr))
IsPrefix(a, b) == Len(a) <= Len(b) /\ a = SubSeq(b, 1, Len(a))

C20_Applied ==
    /\ last.op = "ResizePool" /\ last.err = NoErr
    /\ last.arg = hasImage.size /\ hasImage.size > DefaultDataLoopbackSize
    /\ Len(trace) = 6 /\ trace[1].size = last.arg

Mounted == {h \in DOMAIN Devices : Devices[h].mountCount > 0}
IsDeactivateOf(tr, i, h) == tr[i].k = "deactivateDevice" /\ tr[i].hash = h
IsRemovePool(e) == e.k = "RemoveDevice" /\ e.name = "pool"
IsDeviceSetWrite(e) == e.k = "write" /\ e.path = deviceSetMetaFile
LastIn(S) == CHOOSE i \in S : \A j \in S : j <= i

ShutdownOrder(tr) ==
    LET base == {i \in DOMAIN tr : IsDeactivateOf(tr, i, "")}
        pool == Events(tr, IsRemovePool)
    IN /\ \A h \in Mounted :
             \E i, j \in DOMAIN tr :
                 /\ i < j /\ j < LastIn(base)
                 /\ tr[i].k = "Unmount" /\ tr[i].path = Devices[h].mountPath
                 /\ IsDeactivateOf(tr, j, h)
                 /\ \A m \in i + 1 .. j - 1 : tr[m].k # "Unmount"
       /\ \A h \in DOMAIN Devices \ (Mounted \cup {""}) :
             \A i \in DOMAIN tr : ~IsDeactivateOf(tr, i, h)
       /\ base # {}
       /\ \A i \in DOMAIN tr : tr[i].k = "Unmount" => i < LastIn(base)
       /\ \A p \in pool : LastIn(base) < p /\ p < Len(tr)
       /\ Cardinality(pool) <= 1
       /\ IsDeviceSetWrite(tr[Len(tr)])
       /\ Events(tr, IsDeviceSetWrite) = {Len(tr)}

\* C21: the calls of Shutdown are, for every record with mount_count > 0,
\* the lazy unmount of its path and then its deactivation, for no other
\* record but the base a deactivation, after all of them the deactivation
\* of the base, after that the removal of the pool, and last the write of
\* deviceset-metadata, which when it succeeds leaves the cursor on disk; a
\* startup without do_init then has the cursor of the file; an external
\* pool is never removed.  A thread in Shutdown unmounts holding only the
\* lock of the record, is in a device-mapper call of a deactivation holding
\* that lock and then the DeviceSet's lock, and removes the pool and saves
\* holding only the DeviceSet's lock.
C21_ShutdownOrder ==
    /\ [][last'.op = "Shutdown" =>
            /\ last'.err = NoErr
            /\ ShutdownOrder(trace')
            /\ thinPoolDevice =>
                  Events(trace', IsRemovePool) = {} /\ poolExists' = poolExists
            /\ trace'[Len(trace')].err = NoErr =>
                  /\ deviceSetMetaFile \in DOMAIN files'
                  /\ Complete(files'[deviceSetMetaFile])
                  /\ files'[deviceSetMetaFile].data.next_device_id = NextDeviceId]_vars
    /\ [][(ReplayStep /\ last'.err = NoErr /\ deviceSetMetaFile \in DOMAIN files) =>
            NextDeviceId' = files[deviceSetMetaFile].data.next_device_id]_vars
    /\ [](\A t \in Threads :
            threads[t].op = "Shutdown" =>
                LET th == threads[t]
                    ins == ProgramOf(th)[th.pc]
                IN /\ ins.i = "sys" =>
                        Len(th.held) = 1 /\ th.held[1].lock = "info"
                   /\ (th.in /\ ins.call # "GetDeps" /\ Len(th.held) = 2) =>
                        th.held[1].lock = "info" /\ th.held[2] = Global
                   /\ th.in => Holds(th, Global)
                   /\ (ins.call = "GetDeps" \/ ins.i = "use") => th.held = <<Global>>
                   /\ thinPoolDevice => ins.call # "GetDeps")

\* Shutdown found "A" and the base mounted and removed the pool; the
\* snapshot "B" had moved the cursor, which is on disk
C21_Witness ==
    /\ last.op = "Shutdown"
    /\ Cardinality({i \in DOMAIN trace : trace[i].k = "Unmount" /\ trace[i].err = NoErr}) = 2
    /\ \E i \in DOMAIN trace : trace[i] = [k |-> "RemoveDevice", name |-> "pool", err |-> NoErr]
    /\ "B" \in DOMAIN Devices
    /\ files[deviceSetMetaFile].data.next_device_id = Devices["B"].DeviceId

\* The process started again after Shutdown and has the cursor of the file
C21_Resumed ==
    /\ last.op = "Startup" /\ last.err = NoErr /\ running
    /\ deviceSetMetaFile \in DOMAIN files
    /\ NextDeviceId = files[deviceSetMetaFile].data.next_device_id /\ NextDeviceId > 1

\* A thread in Shutdown sleeps in a wait utility of an external pool's device
C21_ThreadWitness ==
    \E t \in Threads :
        /\ threads[t].op = "Shutdown" /\ thinPoolDevice
        /\ threads[t].held = <<InfoLock("A")>> /\ threads[t].pc > 10
        /\ ProgramOf(threads[t])[threads[t].pc].i = "Lock"

\* C22: after a successful startup the id of every per-device record on
\* disk is marked used, and a marked id is the id of a per-device record on
\* disk or the id of the pending transaction (a record ahead of the pool,
\* as the startup found it or as it left it).
PendingAheadAfter ==
    /\ transactionMetaFile \in DOMAIN files' /\ Complete(files'[transactionMetaFile])
    /\ files'[transactionMetaFile].data.open_transaction_id > poolTxId'

C22_MarkedIds ==
    [][(last'.op = "Startup" /\ last'.err = NoErr) =>
         /\ DiskIds(files') \subseteq deviceIdMap'
         /\ \A id \in deviceIdMap' :
               \/ id \in DiskIds(files')
               \/ PendingAhead /\ id = Pending.device_id
               \/ PendingAheadAfter /\ id = files'[transactionMetaFile].data.device_id]_vars

\* The files that hold a pending-transaction record
TransactionRecords(f) == {n \in DOMAIN f : "open_transaction_id" \in DOMAIN f[n].data}
PendingAfter == files'[transactionMetaFile].data
ReplayedWithRecord ==
    ReplayStep /\ last'.err = NoErr /\ transactionMetaFile \in DOMAIN files'

C23_Committed ==
    /\ last.op = "Startup" /\ last.arg = FALSE /\ last.err = NoErr
    /\ HasPending /\ Pending.open_transaction_id = poolTxId /\ poolTxId > 1

\* A thread is inside a transaction from openTransaction (its use of the
\* pending slot) until it has set the transaction id or returned
InTransaction(th) ==
    /\ th.op # "idle"
    /\ \E i \in 1 .. th.pc - 1 :
          /\ ProgramOf(th)[i].i = "use" /\ ProgramOf(th)[i].call = "Transaction"
          /\ \A j \in i .. th.pc - 1 : ProgramOf(th)[j].call # "TransactionId"

\* C24: a thread inside a transaction holds the DeviceSet's lock, at every
\* step from openTransaction to the commit or the error return, so it is
\* in no sleep of a wait utility; and no two threads are inside a
\* transaction at once.
C24_OneOpenTransaction ==
    /\ \A t \in Threads : InTransaction(threads[t]) => Holds(threads[t], Global)
    /\ \A t, u \in Threads :
          (InTransaction(threads[t]) /\ InTransaction(threads[u])) => t = u

\* A thread deleting "A" is inside its transaction, in the pool's
\* DeleteDevice, while another thread that adds a snapshot of "" holds the
\* lock of "" and waits for the DeviceSet's lock
C24_Witness ==
    \E t, u \in Threads :
        /\ threads[t].op = "DeleteDevice" /\ threads[t].hash = "A"
        /\ InTransaction(threads[t]) /\ threads[t].in
        /\ threads[u].op = "AddDevice" /\ threads[u].held = <<InfoLock("")>>
        /\ ProgramOf(threads[u])[threads[u].pc].i = "Lock"

\* A thread sleeps in a wait utility between devices.Unlock() and
\* devices.Lock(), and has woken when it has the lock again
Sleeping(th) ==
    /\ th.op # "idle" /\ th.pc > 1
    /\ ProgramOf(th)[th.pc].i = "Lock" /\ ProgramOf(th)[th.pc].lock = Global
    /\ ProgramOf(th)[th.pc - 1].i = "Unlock" /\ ProgramOf(th)[th.pc - 1].lock = Global
Woken(th) ==
    /\ th.op # "idle" /\ th.pc > 2
    /\ ProgramOf(th)[th.pc - 1].i = "Lock" /\ ProgramOf(th)[th.pc - 1].lock = Global
    /\ ProgramOf(th)[th.pc - 2].i = "Unlock" /\ ProgramOf(th)[th.pc - 2].lock = Global
\* The devices whose record lock a thread holds
LockedDevices(th) ==
    {th.held[i].hash : i \in {j \in DOMAIN th.held : th.held[j].lock = "info"}}
\* A thread is in a kernel call on the device of its hash
OnDevice(th) ==
    /\ th.in
    /\ th.op \in {"DeleteDevice", "MountDevice", "UnmountDevice"}
    /\ ProgramOf(th)[th.pc].call \in
          {"GetInfo", "ActivateDevice", "RemoveDevice", "BlockDeviceDiscard"}

\* C25: a thread that sleeps in a wait utility does not hold the
\* DeviceSet's lock and holds the lock of the record of the device it
\* waits for; when it has woken it holds the DeviceSet's lock again; while
\* it sleeps no other thread is in a kernel call on the same device.
C25_WaitHoldsDevice ==
    \A t \in Threads :
        /\ Sleeping(threads[t]) =>
              /\ ~Holds(threads[t], Global)
              /\ LockedDevices(threads[t]) # {}
              /\ \A u \in Threads \ {t} :
                     ~(OnDevice(threads[u])
                       /\ threads[u].hash \in LockedDevices(threads[t]))
        /\ Woken(threads[t]) => Holds(threads[t], Global)


\* The k-th id after cursor c in cyclic order
CyclicFrom(c, k) == (c + 1 + k) % (MaxDeviceId + 1)
FirstFree(map, c) ==
    CyclicFrom(c, CHOOSE k \in Ids :
                      /\ CyclicFrom(c, k) \notin map
                      /\ \A j \in 0 .. k - 1 : CyclicFrom(c, j) \in map)

\* C26: getNextFreeDeviceId fails with NoFreeId exactly when every id is
\* used, and has then tested every id exactly once and changed no bit;
\* otherwise it returns the first free id in cyclic order after the cursor,
\* has tested the ids from cursor+1 up to that id in order, each once, marks
\* that id and no other, and leaves the cursor on the returned id.
C26_Allocator ==
    [][last'.op = "getNextFreeDeviceId" =>
         /\ last'.err \in {NoErr, "NoFreeId"}
         /\ last'.err = "NoFreeId" <=> deviceIdMap = Ids
         /\ \A i \in DOMAIN trace' :
                trace'[i] = [k |-> "isDeviceIdFree", id |-> CyclicFrom(NextDeviceId, i - 1),
                             used |-> deviceIdMap, err |-> NoErr]
         /\ last'.err = NoErr =>
              /\ last'.arg = FirstFree(deviceIdMap, NextDeviceId)
              /\ last'.arg \notin deviceIdMap
              /\ deviceIdMap' = deviceIdMap \cup {last'.arg}
              /\ NextDeviceId' = last'.arg
              /\ trace'[Len(trace')].id = last'.arg
         /\ last'.err = "NoFreeId" =>
              /\ deviceIdMap' = deviceIdMap
              /\ Len(trace') = MaxDeviceId + 1]_vars

\* The only free id was the cursor's own: the scan went all the way round
C26_Witness ==
    /\ last.op = "getNextFreeDeviceId" /\ last.err = NoErr
    /\ Len(trace) = MaxDeviceId + 1
    /\ deviceIdMap = Ids
\* Every id was used
C26_Full == last.op = "getNextFreeDeviceId" /\ last.err = "NoFreeId"


\* C27: the first id an operation hands out is none of the ids that
\* DeleteDevice marked free since an id was last handed out, unless that id
\* was the only free one; a crash and a restart in between change nothing.
C27_NoImmediateReuse ==
    [][\A i \in HandedOut(trace') :
          (\A j \in HandedOut(trace') : i <= j) =>
              \A f \in freed :
                  (\E g \in Ids \ {f} : g \notin trace'[i].used) => trace'[i].id # f]_vars


IsCreated(e) ==
    /\ e.k = "return" /\ e.op \in {"createRegisterDevice", "createRegisterSnapDevice"}
    /\ e.err = NoErr
IsOpenWrite(e) == e.k = "write" /\ e.path = transactionMetaFile /\ e.err = NoErr
IsKernelCreate(e) == e.k \in {"CreateDevice", "CreateSnapDevice"} /\ e.err = NoErr
IsCommit(e) == e.k = "SetTransactionId" /\ e.err = NoErr
\* The steps of the successful create that returned with e: the pending
\* record, then the kernel's create, then the record of the device and
\* the pool's transaction id, the latter two in the order given
CreateOrder(e, commitFirst) ==
    LET c == e.calls
        create == {i \in DOMAIN c : IsKernelCreate(c[i])}
        record == {i \in DOMAIN c : /\ c[i].k = "write" /\ c[i].err = NoErr
                                    /\ c[i].path = metadataFile(e.hash)}
        commit == {i \in DOMAIN c : IsCommit(c[i])}
    IN /\ Cardinality(create) = 1 /\ Cardinality(record) = 1 /\ Cardinality(commit) = 1
       /\ \A k \in create : \E i \in DOMAIN c : IsOpenWrite(c[i]) /\ i < k
       /\ \A k \in create, r \in record, m \in commit :
              /\ k < r /\ k < m
              /\ IF commitFirst THEN m < r ELSE r < m
              /\ c[m].old = e.ptx0 /\ c[m].new = e.rtx /\ e.ptx1 = e.rtx

IsCreateCall(e) == e.k \in {"CreateDevice", "CreateSnapDevice"}
IsRetry(e) == IsCreateCall(e) /\ e.err = "DeviceIdExists"
\* The hash the operation that has just run creates a device for
CreatedHash(l) == IF l.op = "AddDevice" THEN l.hash ELSE ""

\* C29: at every CreateDevice and CreateSnapDevice call the pending
\* record on disk names the hash that is created and the id the call is
\* made for, on the first call and on every call after DeviceIdExists.
C29_PendingNamesCreate ==
    [][\A i \in DOMAIN trace' :
          IsCreateCall(trace'[i]) =>
              /\ trace'[i].pending.device_hash = CreatedHash(last')
              /\ trace'[i].pending.device_id = trace'[i].id]_vars


RemoveCalls == {i \in DOMAIN rmwait.log : rmwait.log[i].k = "RemoveDevice"}
InfoCalls == {i \in DOMAIN rmwait.log : rmwait.log[i].k = "GetInfo"}
Sleeps == {i \in DOMAIN rmwait.log : rmwait.log[i].k = "Sleep"}
\* What removeDeviceAndWait has done so far, and what it returned
RemoveAndWaitBounded ==
    LET log == rmwait.log
    IN /\ Cardinality(RemoveCalls) <= MaxAttempts
       /\ Cardinality(InfoCalls) <= MaxAttempts
       /\ \A i \in Sleeps :
              /\ i > 1
              /\ \/ log[i - 1] = [k |-> "RemoveDevice", err |-> "ErrBusy"]
                 \/ log[i - 1] = [k |-> "GetInfo", err |-> "exists"]
       /\ \A i \in RemoveCalls : \A j \in RemoveCalls : j < i => log[j].err = "ErrBusy"
       /\ \A i \in InfoCalls :
              /\ \E j \in RemoveCalls : j < i /\ log[j].err = NoErr
              /\ \A j \in InfoCalls : j < i => log[j].err = "exists"
              /\ log[i].err \in {"gone", "error"} =>
                    i = Len(log) /\ rmwait.pc = "returned" /\ rmwait.err = NoErr
       /\ \A i \in RemoveCalls :
              log[i].err = "KernelError" =>
                    i = Len(log) /\ rmwait.pc = "returned" /\ rmwait.err = "KernelError"
       /\ rmwait.pc = "returned" =>
              /\ rmwait.err \in {NoErr, "KernelError", "ErrBusy", "Timeout"}
              /\ rmwait.err = "KernelError" =>
                    log[Len(log)] = [k |-> "RemoveDevice", err |-> "KernelError"]
              /\ rmwait.err = "ErrBusy" =>
                    /\ Cardinality(RemoveCalls) = MaxAttempts
                    /\ \A i \in RemoveCalls : log[i].err = "ErrBusy"
                    /\ InfoCalls = {}
              /\ rmwait.err = "Timeout" =>
                    /\ Cardinality(InfoCalls) = MaxAttempts
                    /\ \A i \in InfoCalls : log[i].err = "exists"
              /\ rmwait.err = NoErr =>
                    /\ log[Len(log)].k = "GetInfo"
                    /\ log[Len(log)].err \in {"gone", "error"}

\* C30: removeDeviceAndWait returns; it calls RemoveDevice at most
\* MaxAttempts times, sleeps only after ErrBusy or after a GetInfo that
\* found the device, returns any other error of RemoveDevice at once and
\* ErrBusy when every attempt was busy; after a RemoveDevice that succeeded
\* it calls GetInfo at most MaxAttempts times, returns nil at the first
\* call that fails or reports the device gone, and Timeout when every call
\* found the device.
C30_RemoveAndWait ==
    /\ []RemoveAndWaitBounded
    /\ (rmwait.pc \notin {"idle", "returned"}) ~> (rmwait.pc = "returned")

\* Busy until the last attempt, then removed, then present at every poll
C30_Witness ==
    /\ rmwait.pc = "returned" /\ rmwait.err = "Timeout"
    /\ Cardinality(RemoveCalls) = MaxAttempts
    /\ Cardinality(InfoCalls) = MaxAttempts


IsCloseTimeout(e) == e.k = "waitClose" /\ e.err = "Timeout"

\* C31: when waitClose gives up with Timeout, the operation that
\* deactivates the device returns that Timeout and RemoveDevice is not
\* called for the device afterwards.
C31_CloseTimeoutPropagates ==
    [][\A i \in DOMAIN trace' :
          IsCloseTimeout(trace'[i]) =>
              /\ last'.err = "Timeout"
              /\ \A j \in DOMAIN trace' :
                     j > i => ~(/\ trace'[j].k = "RemoveDevice"
                                /\ trace'[j].name = Name(trace'[i].hash))]_vars

(***************************************************************************)
(* A crash inside AddDevice.  The process is killed after one of the steps *)
(* of createRegisterSnapDevice, every call made so far having succeeded;   *)
(* its memory is lost and the files, the pool and the kernel devices stay. *)
(***************************************************************************)
CrashPoints == {"allocated", "opened", "created", "registered", "committed"}

\* createRegisterSnapDevice up to the step point; val is the id in use
RECURSIVE createSnapUpTo(_, _, _, _, _)
createSnapUpTo(s, deviceId, hash, baseInfo, point) ==
    Bind(dmCreateSnapDevice(s, deviceId, Name(baseInfo.Hash), baseInfo.DeviceId, FALSE),
         LAMBDA c :
    IF c.err = "DeviceIdExists"
    THEN Bind(getNextFreeDeviceId(c.s), LAMBDA n :
         IF n.err # NoErr THEN Fail(n.s, n.err)
         ELSE createSnapUpTo(refreshTransaction(n.s, n.val, "none").s,
                             n.val, hash, baseInfo, point))
    ELSE IF c.err # NoErr \/ point = "created" THEN Ret(c.s, c.err, deviceId)
    ELSE Bind(registerDevice(c.s, deviceId, hash, baseInfo.Size,
                             c.s.Transaction.OpenTransactionId, "none"), LAMBDA g :
         IF g.err # NoErr \/ point = "registered" THEN Ret(g.s, g.err, deviceId)
         ELSE Ret(closeTransaction(g.s, FALSE).s, NoErr, deviceId)))

AddDeviceUpTo(s, hash, baseHash, point) ==
    Bind(lookupDevice(s, baseHash), LAMBDA b :
    IF b.err # NoErr THEN b
    ELSE Bind(lookupDevice(b.s, hash), LAMBDA l :
         IF l.err = NoErr THEN Fail(l.s, "DeviceExists")
         ELSE Bind(getNextFreeDeviceId(l.s), LAMBDA n :
              IF n.err # NoErr \/ point = "allocated" THEN n
              ELSE Bind(openTransaction(n.s, hash, n.val, "none"), LAMBDA t :
                   IF t.err # NoErr \/ point = "opened" THEN Ret(t.s, t.err, n.val)
                   ELSE createSnapUpTo(t.s, n.val, hash, l.s.Devices[baseHash], point)))))

\* The process dies inside AddDevice(hash, baseHash), after the step point
CrashInAddDevice(hs) ==
    \E hash \in hs, baseHash \in hs, point \in CrashPoints :
        /\ running
        /\ TransactionId < MaxTxn
        /\ \E r \in {AddDeviceUpTo(Cur, hash, baseHash, point)} :
              /\ r.err = NoErr
              /\ Becomes(Ev(NewDeviceSet(r.s),
                            [k |-> "crash", point |-> point, hash |-> hash, id |-> r.val]))
        /\ running' = FALSE
        /\ last' = Last("CrashInAddDevice", hash, baseHash, NoErr)
        /\ mon' = NoMon

CrashStartupOracles == {NoFault} \cup One({"rollback.delete"})

CrashDeleteOracles == {NoFault} \cup One({"del.delete"})

NextCrash ==
    \/ CrashInAddDevice(ChainHashes)
    \/ Crash
    \/ Startup(CrashStartupOracles)
    \/ DoAddDevice(ChainHashes, {NoFault})
    \/ DoDeleteDevice(ChainHashes, CrashDeleteOracles)

SpecCrash == InitMount /\ [][NextCrash]_vars

\* The device hash with the id is there as a whole on disk and in the pool
FullyPresent(s, hash, id) ==
    /\ metadataFile(hash) \in DOMAIN s.files
    /\ \E info \in loadMetadata(s, hash) :
          info.DeviceId = id /\ info.TransactionId = s.poolTxId
    /\ id \in s.thinIds
    /\ id \in s.deviceIdMap

FullyAbsent(s, hash, id) ==
    /\ metadataFile(hash) \notin DOMAIN s.files
    /\ id \notin s.thinIds
    /\ id \notin s.deviceIdMap

CrashedAdd == trace[Len(trace)]

\* C32: the restart that follows a crash inside AddDevice leaves the new
\* device fully present (record on disk with the pool's transaction id,
\* thin device in the pool, id marked used) or fully absent (no record on
\* disk, no thin device with the id, id free).
C32_CrashAtomic ==
    [][(last.op = "CrashInAddDevice" /\ last'.op = "Startup" /\ last'.err = NoErr)
          => \/ FullyPresent(Cur', CrashedAdd.hash, CrashedAdd.id)
             \/ FullyAbsent(Cur', CrashedAdd.hash, CrashedAdd.id)]_vars

\* The hashes, other than the base, persisted by a committed create in s
\* and still in the pool: the record on disk carries a transaction id not
\* above the pool's and its thin device exists.
CommittedDevices(s) ==
    {h \in ChainHashes \ {""} :
        \E info \in loadMetadata(s, h) :
            info.TransactionId <= s.poolTxId /\ info.DeviceId \in s.thinIds}

\* C33: a restart removes the metadata file and the thin device only of a
\* device whose creation never committed: every device persisted by a
\* committed create is still on disk and in the pool after the restart,
\* also when a DeleteDevice on it returned an error before.
C33_ReplaySparesCommitted ==
    [][(last'.op = "Startup" /\ last'.err = NoErr)
          => CommittedDevices(Cur) \subseteq CommittedDevices(Cur')]_vars

\* The device ids of the records in the registry
RegisteredIds == {Devices[h].DeviceId : h \in DOMAIN Devices}

\* The kernel calls that carry the device id of the record handed out
IdCalls == {"ActivateDevice", "DeleteDevice", "CreateSnapDevice"}

InIdCall(th) ==
    /\ th.op # "idle"
    /\ th.in
    /\ ProgramOf(th)[th.pc].call \in IdCalls

\* C34: a thread inside ActivateDevice, the pool's DeleteDevice or
\* CreateSnapDevice carries the id of a record that is still registered:
\* no such call is issued for a record that a concurrent DeleteDevice has
\* unregistered, so a second DeleteDevice of the hash does not delete the
\* id again and AddDevice does not snapshot from an unregistered base.
C34_NoStaleKernelCall ==
    \A t \in Threads : InIdCall(threads[t]) => threads[t].obj \in RegisteredIds

(***************************************************************************)
(* Progress of the threads.  The threads call the public operations that   *)
(* take locks; every kernel call returns, and a thread that can run its    *)
(* next instruction again and again does run it (a mutex that is released  *)
(* again and again is eventually won by every thread that waits for it).   *)
(***************************************************************************)
LiveOps ==
    {"AddDevice", "DeleteDevice", "MountDevice", "UnmountDevice", "HasDevice",
     "HasActivatedDevice", "List", "GetDeviceStatus", "Shutdown"}

NextLive == \E t \in Threads : CallOf(t, LiveOps) \/ Step(t) \/ EarlyReturn(t)

SpecLive == InitMount /\ [][NextLive]_vars /\ \A t \in Threads : SF_vars(Step(t))

\* Thread t waits for a lock that thread u holds
WaitsFor(t, u) ==
    /\ threads[t].op # "idle"
    /\ ProgramOf(threads[t])[threads[t].pc].i = "Lock"
    /\ Holds(threads[u], ProgramOf(threads[t])[threads[t].pc].lock)

\* Some threads wait for locks that only threads among them hold
Deadlocked ==
    \E S \in SUBSET Threads :
        /\ S # {}
        /\ \A t \in S : \E u \in S : WaitsFor(t, u)

C36_FailedMountKeepsCount ==
    [][(/\ last'.op \in {"MountDevice", "UnmountDevice"}
        /\ last'.err # NoErr
        /\ last'.hash \in DOMAIN Devices')
          => /\ Devices'[last'.hash].mountCount = last'.pre.count
             /\ Devices'[last'.hash].mountPath = last'.pre.path]_vars

(***************************************************************************)
(* A crash inside a metadata write, and the restart that follows: the      *)
(* process is killed at a step of writeMetaFile, the temp file it created  *)
(* stays in the metadata directory, NewDeviceSet starts on that directory. *)
(***************************************************************************)
KillInWrite ==
    /\ running
    /\ wr.pc \notin {"idle", "returned"}
    /\ wr' = NoWrite
    /\ running' = FALSE
    /\ Set(NewDeviceSet(Cur))
    /\ last' = [last EXCEPT !.err = "killed"]
    /\ UNCHANGED <<ops, mon, del, threads, doBlkDiscard, thinPoolDevice, freed, rmwait>>

NextLeftover ==
    \/ running /\ DoWriteMetaFile
    \/ running /\ WriteStep
    \/ KillInWrite
    \/ Startup({NoFault})

SpecLeftover == InitWrite /\ [][NextLeftover]_vars

\* What the restart would do on the same directory without the temp file
WithoutLeftover(s, doInit) ==
    initDevmapper(NewDeviceSet([s EXCEPT !.files = Drop(@, TmpFile)]), doInit, NoFault)

\* C37: a temp file left by a write that was killed before its rename has
\* no effect on the next startup: the startup succeeds, loads the records
\* and marks the ids it would without the temp file.
C37_LeftoverIgnored ==
    [][(last.err = "killed" /\ TmpFile \in DOMAIN files /\ last'.op = "Startup")
          => \E r \in {WithoutLeftover(Cur, last'.arg)} :
                /\ r.err = NoErr => last'.err = NoErr
                /\ r.err = NoErr => deviceIdMap' = r.s.deviceIdMap
                /\ r.err = NoErr => Devices' = r.s.Devices]_vars

ReservedFiles == {deviceSetMetaFile, transactionMetaFile}

\* C38: the records in the registry come each from a metadata file of its
\* own, and none from a reserved file: metadataFile maps the hashes looked
\* up to distinct files, none of them deviceset-metadata or
\* transaction-metadata.
C38_OneFilePerHash ==
    /\ \A h \in DOMAIN Devices, g \in DOMAIN Devices :
          h # g => metadataFile(h) # metadataFile(g)
    /\ \A h \in DOMAIN Devices : metadataFile(h) \notin ReservedFiles

\* C39: whenever HasDevice(h) would return true, h is among the hashes
\* that List() returns, in every state of the running device set.
C39_ListHasAll ==
    running => \A h \in MountHashes : HasDevice(Cur, h).err = NoErr => h \in List(Cur)

IsSuspended(e) == e.k = "SuspendDevice" /\ e.err = NoErr
IsResumed(e) == e.k = "ResumeDevice" /\ e.err = NoErr

\* C40: when ResizePool returns, with or without an error, every
\* SuspendDevice of the pool that succeeded was followed by a ResumeDevice
\* that succeeded: the pool is not left suspended.
C40_ResizeResumes ==
    [][last'.op = "ResizePool"
          => \A i \in DOMAIN trace' :
                IsSuspended(trace'[i])
                    => \E j \in DOMAIN trace' : j > i /\ IsResumed(trace'[j])]_vars

====
